---- MODULE Spec2Model ----
(***************************************************************************)
(* A model of the dual-tier cache engine of keygenmusic-api                *)
(* (src/src/lib/cache.ts): CacheEngine with its local Map tier and its     *)
(* Redis tier, and the CacheService built on it.                           *)
(*                                                                         *)
(* Every async function of the source is an operator that maps the engine, *)
(* the function's frame (arguments, locals and the await it is suspended   *)
(* at) and the value delivered at that await to what the function does up  *)
(* to its next await: it returns, throws, awaits a Redis reply, a timer or *)
(* a promise, or calls another async function.  A caller (task) is a stack *)
(* of such frames; one step of a task runs it from one suspension to the   *)
(* next, which is the atomicity JavaScript's single thread gives.          *)
(***************************************************************************)
EXTENDS Integers, Sequences, FiniteSets, TLC

VARIABLES
  engine,     \* the CacheEngine object: config, primaryClient, primaryActive,
              \* connectionReady, memoryCache, metrics, and the client
              \* object's state (handlers installed, connection)
  remote,     \* the Redis server's keyspace: key -> [raw, exp]
  now,        \* Date.now(), in milliseconds
  tasks,      \* per caller: the stack of suspended frames and the value awaiting
              \* delivery; its current or last call, that call's outcome and the
              \* call before it
  calls,      \* number of public calls started so far (bounds the runs)
  hist        \* history the properties are stated on:
              \*   supplierCalls  key -> times a getOrSet supplier ran
              \*   lockAccess     <<lockKey, cache key>> pairs the lock operations used
              \*   holders        the lock grants, [task, key, until]
              \*   lapsed         keys seen resident past their expiration and not
              \*                  written since
              \*   rateCalls      counter key -> rateLimit calls made on it
              \*   evicted        keys the capacity management has removed
              \*   hits, misses   get calls that returned a value / a miss, and
              \*   written        set calls that returned true, since the last
              \*                  clear that returned true

vars == <<engine, remote, now, tasks, calls, hist>>

\* ------------------------------------------------------------------ bounds
MaxCalls == 4
\* Clock ticks a run takes: of the lock, of the capacity, expiry and rate runs.
LockTicks == 3
CapacityTicks == 2
ExpiryTicks == 3
RateTicks == 3
\* Calls in a run with remote failures.
FailureCalls == 2
\* Calls in a run of lock releases.
ReleaseCalls == 3
\* Calls in a run of lock acquisitions under failures.
AcquireCalls == 2
\* Clock ticks (seconds) of the session run.
SessionTicks == 2
\* Calls of the metrics run.
MetricsCalls == 3
\* Calls of the run that observes the tiers.
TierCalls == 2
\* Calls of the concurrent rateLimit run.
RaceCalls == 3
\* Calls of the run that watches the live flag.
LiveCalls == 2
\* Calls of the run that watches the handshake.
OnceCalls == 2

\* ------------------------------------------------------------------ values
\* JavaScript values the cache holds, tagged by type.
Null == [t |-> "null"]

\* The value delivered at a resumption: a result, or an exception.
NoInput == [exc |-> FALSE, v |-> Null]

\* A task's record names its call first, then whether and how far it has run,
\* then the values in flight, whose type follows from the former.
NoCall == [fn |-> "none"]

\* A task that has made no call yet.
FreshTask ==
  [call |-> NoCall, done |-> TRUE, seq |-> 0, faults |-> 0, frame |-> NoCall,
   stack |-> <<>>, pend |-> NoInput, res |-> NoInput,
   prev |-> [call |-> NoCall, seq |-> 0, res |-> NoInput]]
NoPrev == FreshTask.prev

NaN == [t |-> "NaN"]
BigInt == [t |-> "bigint"]
Num(n) == [t |-> "number", n |-> n]
Str(s) == [t |-> "string", s |-> s]
SessionObj(userId, data, createdAt, lastActive) ==
  [t |-> "object", userId |-> userId, data |-> data,
   createdAt |-> createdAt, lastActive |-> lastActive]

\* `undefined` for an optional number (lifespan, expiration).
Undefined == -1

\* JavaScript truthiness of a value.
Truthy(v) ==
  CASE v.t = "null" -> FALSE
    [] v.t = "NaN" -> FALSE
    [] v.t = "number" -> v.n # 0
    [] v.t = "string" -> v.s # ""
    [] OTHER -> TRUE

\* JSON.stringify: the text, by its grammar, or a TypeError.  NaN becomes the
\* text null; a BigInt cannot be serialized.
JSONstringify(v) ==
  CASE v.t = "null" -> [exc |-> FALSE, v |-> [j |-> "null"]]
    [] v.t = "NaN" -> [exc |-> FALSE, v |-> [j |-> "null"]]
    [] v.t = "number" -> [exc |-> FALSE, v |-> [j |-> "int", n |-> v.n]]
    [] v.t = "string" -> [exc |-> FALSE, v |-> [j |-> "quoted", s |-> v.s]]
    [] v.t = "object" ->
         [exc |-> FALSE,
          v |-> [j |-> "braces", userId |-> v.userId, data |-> v.data,
                 createdAt |-> v.createdAt, lastActive |-> v.lastActive]]
    [] OTHER -> [exc |-> TRUE, v |-> [j |-> "none"]]

\* JSON.parse: the value of a text, or a SyntaxError for a text that is not JSON.
JSONparse(raw) ==
  CASE raw.j = "null" -> [exc |-> FALSE, v |-> Null]
    [] raw.j = "int" -> [exc |-> FALSE, v |-> Num(raw.n)]
    [] raw.j = "quoted" -> [exc |-> FALSE, v |-> Str(raw.s)]
    [] raw.j = "braces" ->
         [exc |-> FALSE,
          v |-> SessionObj(raw.userId, raw.data, raw.createdAt, raw.lastActive)]
    [] OTHER -> [exc |-> TRUE, v |-> Null]

\* What Redis holds that is no JSON text, and the reply for a missing key.
Garbage == [j |-> "garbage"]
Nil == [j |-> "nil"]
\* `if (raw)`: a reply is truthy unless it is nil (no stored text is empty).
RawTruthy(raw) == raw.j # "nil"

\* ------------------------------------------------------- the local Map tier
\* memoryCache is a Map: a sequence of entries in insertion order.
MapIndex(mc, key) ==
  IF \E i \in 1..Len(mc) : mc[i].key = key
  THEN CHOOSE i \in 1..Len(mc) : mc[i].key = key
  ELSE 0

MapHas(mc, key) == MapIndex(mc, key) # 0

\* Map.set: an existing key keeps its place, a new key goes last.
MapSet(mc, key, value, expiration, lastAccessed) ==
  LET entry == [key |-> key, value |-> value, expiration |-> expiration,
                lastAccessed |-> lastAccessed]
      i == MapIndex(mc, key)
  IN IF i # 0 THEN [mc EXCEPT ![i] = entry] ELSE Append(mc, entry)

\* Map.delete
MapDelete(mc, key) ==
  LET i == MapIndex(mc, key)
  IN IF i = 0 THEN mc ELSE SubSeq(mc, 1, i - 1) \o SubSeq(mc, i + 1, Len(mc))

\* `entry.expiration && Date.now() > entry.expiration`
Expired(entry, t) ==
  entry.expiration # Undefined /\ entry.expiration # 0 /\ t > entry.expiration

\* The for-loop of evict(): the candidate after scanning entries i..Len(mc).
RECURSIVE EvictScan(_, _, _, _)
EvictScan(mc, i, candidateKey, oldestAccess) ==
  IF i > Len(mc) THEN candidateKey
  ELSE IF mc[i].lastAccessed < oldestAccess
       THEN EvictScan(mc, i + 1, mc[i].key, mc[i].lastAccessed)
       ELSE EvictScan(mc, i + 1, candidateKey, oldestAccess)

\* An eviction in insertion order, whatever the entries' last access.
evict_first(mc, t) == IF mc = <<>> THEN mc ELSE Tail(mc)

\* CacheEngine.evict: candidateKey starts as '' and oldestAccess as Date.now();
\* `if (candidateKey)` skips the delete for the empty string.
evict(mc, t) ==
  LET candidateKey == EvictScan(mc, 1, "", t)
  IN IF candidateKey # "" THEN MapDelete(mc, candidateKey) ELSE mc

\* ------------------------------------------------------------ the Redis tier
\* Keys whose expiry has passed are gone for every command.
RLive(r, t) ==
  LET keep == {k \in DOMAIN r : r[k].exp = Undefined \/ t < r[k].exp}
  IN [k \in keep |-> r[k]]

RPut(r, key, raw, exp) ==
  [k \in DOMAIN r \cup {key} |-> IF k = key THEN [raw |-> raw, exp |-> exp] ELSE r[k]]

RDrop(r, key) == [k \in DOMAIN r \ {key} |-> r[k]]

\* One Redis command, as the engine issues it from the await named f.pc; the
\* reply is a value or an error reply.
Prim(r0, f, t) ==
  LET r == RLive(r0, t)
      has == f.key \in DOMAIN r
  IN CASE f.pc = "client.get" ->
            [r |-> r, exc |-> FALSE, v |-> IF has THEN r[f.key].raw ELSE Nil]
       [] f.pc = "client.set" ->
            [r |-> RPut(r, f.key, f.encoded, Undefined), exc |-> FALSE, v |-> Nil]
       [] f.pc = "client.expire" ->
            [r |-> IF ~has THEN r
                   ELSE IF f.ttl <= 0 THEN RDrop(r, f.key)
                   ELSE RPut(r, f.key, r[f.key].raw, t + f.ttl * 1000),
             exc |-> FALSE, v |-> Nil]
       [] f.pc = "client.exists" -> [r |-> r, exc |-> FALSE, v |-> has]
       [] f.pc = "client.del" ->
            [r |-> RDrop(r, f.key), exc |-> FALSE, v |-> IF has THEN 1 ELSE 0]
       [] f.pc = "client.incr" ->
            IF ~has
            THEN [r |-> RPut(r, f.key, [j |-> "int", n |-> f.step], Undefined),
                  exc |-> FALSE, v |-> f.step]
            ELSE IF r[f.key].raw.j = "int"
            THEN [r |-> RPut(r, f.key, [j |-> "int", n |-> r[f.key].raw.n + f.step],
                             r[f.key].exp),
                  exc |-> FALSE, v |-> r[f.key].raw.n + f.step]
            ELSE [r |-> r, exc |-> TRUE, v |-> 0]
       [] f.pc = "client.ttl" ->
            [r |-> r, exc |-> FALSE,
             v |-> IF ~has THEN -2
                   ELSE IF r[f.key].exp = Undefined THEN -1
                   ELSE (r[f.key].exp - t + 500) \div 1000]
       [] f.pc = "FLUSHDB" ->
            [r |-> [k \in {} |-> Nil], exc |-> FALSE, v |-> Nil]
       [] OTHER -> [r |-> r, exc |-> FALSE, v |-> Nil]  \* PING

\* ------------------------------------------------- frames and their outcomes
\* What a function does from one suspension to the next.
Return(e, v) == [act |-> "return", e |-> e, v |-> v]
Throw(e) == [act |-> "throw", e |-> e, v |-> Null]
\* `await` of a Redis reply ("prim"), a timer ("timer") or a promise ("promise").
Await(e, f, w, pc) == [act |-> "await", e |-> e, f |-> [f EXCEPT !.pc = pc, !.w = w]]
\* `await callee(...)`: the callee runs at once up to its own first await; the
\* caller resumes at pc in a later microtask.
CallFn(e, f, pc, callee) ==
  [act |-> "call", e |-> e, f |-> [f EXCEPT !.pc = pc, !.w = "resume"], callee |-> callee]


InitFrame == [fn |-> "establishPrimaryConnection", pc |-> "start", w |-> "run"]
SetFrame(key, value, lifespan) ==
  [fn |-> "set", pc |-> "start", w |-> "run", key |-> key, value |-> value,
   lifespan |-> lifespan, encoded |-> Nil, ttl |-> 0]
GetFrame(key) == [fn |-> "get", pc |-> "start", w |-> "run", key |-> key]
HasFrame(key) == [fn |-> "has", pc |-> "start", w |-> "run", key |-> key]
DeleteFrame(key) == [fn |-> "delete", pc |-> "start", w |-> "run", key |-> key]
IncrementFrame(key, step) ==
  [fn |-> "increment", pc |-> "start", w |-> "run", key |-> key, step |-> step,
   updatedVal |-> Null]

\* --------------------------------------------------------------- CacheEngine
\* get isPrimaryActive
isPrimaryActive(e) == e.primaryActive /\ e.primaryClient # "null"

\* `!this.connectionReady && this.config.primaryEndpoint`
NeedsInit(e) == ~e.connectionReady /\ e.config.primaryEndpoint # ""

Bump(e, counter) == [e EXCEPT !.metrics[counter] = @ + 1]

\* A handshake that does not record that it has started.
establishPrimaryConnection_again(e, f, in, t) ==
  CASE f.pc = "start" ->
         IF e.connectionReady THEN Return(e, Null)
         ELSE Await([e EXCEPT !.primaryClient = "client", !.connection = "open"],
                    f, "prim", "PING")
    [] OTHER ->
         IF in.exc \/ e.primaryClient = "null"
         THEN Return([e EXCEPT !.primaryActive = FALSE, !.primaryClient = "null"], Null)
         ELSE Return([e EXCEPT !.primaryActive = TRUE, !.handlers = TRUE], Null)

\* establishPrimaryConnection: the one-shot handshake.
establishPrimaryConnection(e, f, in, t) ==
  CASE f.pc = "start" ->
         IF e.connectionReady THEN Return(e, Null)
         ELSE Await([e EXCEPT !.connectionReady = TRUE, !.primaryClient = "client",
                              !.connection = "open"],
                    f, "prim", "PING")
    [] OTHER ->  \* after `await this.primaryClient.send('PING', [])`
         IF in.exc \/ e.primaryClient = "null"
         \* the PING failed, or shutdown() has cleared primaryClient and the
         \* assignment of onclose raises: the catch block
         THEN Return([e EXCEPT !.primaryActive = FALSE, !.primaryClient = "null"], Null)
         ELSE Return([e EXCEPT !.primaryActive = TRUE, !.handlers = TRUE], Null)

\* set, from the tier decision on.
set_route(e, f, t) ==
  IF isPrimaryActive(e)
  THEN LET encoded == JSONstringify(f.value)
       IN IF encoded.exc THEN Return(e, FALSE)
          ELSE Await(e, [f EXCEPT !.encoded = encoded.v], "prim", "client.set")
  ELSE LET mc == IF Len(e.memoryCache) >= e.config.memoryTierLimit
                 THEN evict(e.memoryCache, t) ELSE e.memoryCache
           expiration ==
             IF f.lifespan # Undefined THEN t + f.lifespan * 1000
             ELSE IF e.config.entryLifespan > 0 THEN t + e.config.entryLifespan * 1000
             ELSE Undefined
       IN Return(Bump([e EXCEPT !.memoryCache = MapSet(mc, f.key, f.value, expiration, t)],
                      "writes"),
                 TRUE)

\* A set that would not count the writes it makes on the remote tier.
set_uncounted(e, f, in, t) ==
  CASE f.pc = "start" ->
         IF NeedsInit(e) THEN CallFn(e, f, "init", InitFrame) ELSE set_route(e, f, t)
    [] f.pc = "init" -> set_route(e, f, t)
    [] OTHER -> Return(e, ~in.exc)

\* CacheEngine.set
set(e, f, in, t) ==
  CASE f.pc = "start" ->
         IF NeedsInit(e) THEN CallFn(e, f, "init", InitFrame) ELSE set_route(e, f, t)
    [] f.pc = "init" -> set_route(e, f, t)
    [] f.pc = "client.set" ->
         IF in.exc THEN Return(e, FALSE)
         ELSE LET ttl == IF f.lifespan # Undefined THEN f.lifespan
                         ELSE e.config.entryLifespan
              IN IF ttl > 0 THEN Await(e, [f EXCEPT !.ttl = ttl], "prim", "client.expire")
                 ELSE Return(Bump(e, "writes"), TRUE)
    [] OTHER ->  \* after `await this.primaryClient.expire(key, ttl)`
         IF in.exc THEN Return(e, FALSE) ELSE Return(Bump(e, "writes"), TRUE)

\* get, from the tier decision on.
get_route(e, f, t) ==
  IF isPrimaryActive(e) THEN Await(e, f, "prim", "client.get")
  ELSE LET i == MapIndex(e.memoryCache, f.key)
       IN IF i # 0
          THEN IF Expired(e.memoryCache[i], t)
               THEN Return(Bump([e EXCEPT !.memoryCache = MapDelete(@, f.key)], "failed"),
                           Null)
               ELSE Return(Bump([e EXCEPT !.memoryCache[i].lastAccessed = t], "successful"),
                           e.memoryCache[i].value)
          ELSE Return(Bump(e, "failed"), Null)

\* A get that takes the engine off the remote tier when Redis fails it.
get_tripping(e, f, in, t) ==
  CASE f.pc = "start" ->
         IF NeedsInit(e) THEN CallFn(e, f, "init", InitFrame) ELSE get_route(e, f, t)
    [] f.pc = "init" -> get_route(e, f, t)
    [] OTHER ->
         IF in.exc THEN Return([Bump(e, "failed") EXCEPT !.primaryActive = FALSE], Null)
         ELSE IF RawTruthy(in.v)
         THEN IF JSONparse(in.v).exc
              THEN Return(Bump(Bump(e, "successful"), "failed"), Null)
              ELSE Return(Bump(e, "successful"), JSONparse(in.v).v)
         ELSE Return(Bump(e, "failed"), Null)

\* CacheEngine.get
get(e, f, in, t) ==
  CASE f.pc = "start" ->
         IF NeedsInit(e) THEN CallFn(e, f, "init", InitFrame) ELSE get_route(e, f, t)
    [] f.pc = "init" -> get_route(e, f, t)
    [] OTHER ->  \* after `await this.primaryClient.get(key)`
         IF in.exc THEN Return(Bump(e, "failed"), Null)
         ELSE IF RawTruthy(in.v)
         THEN LET parsed == JSONparse(in.v)
              IN IF parsed.exc
                 THEN Return(Bump(Bump(e, "successful"), "failed"), Null)
                 ELSE Return(Bump(e, "successful"), parsed.v)
         ELSE Return(Bump(e, "failed"), Null)

\* has, from the tier decision on.
has_route(e, f, t) ==
  IF isPrimaryActive(e) THEN Await(e, f, "prim", "client.exists")
  ELSE LET i == MapIndex(e.memoryCache, f.key)
       IN IF i # 0 /\ Expired(e.memoryCache[i], t)
          THEN Return([e EXCEPT !.memoryCache = MapDelete(@, f.key)], FALSE)
          ELSE Return(e, i # 0)

\* A has whose catch block would raise again.
has_raising(e, f, in, t) ==
  CASE f.pc = "start" ->
         IF NeedsInit(e) THEN CallFn(e, f, "init", InitFrame) ELSE has_route(e, f, t)
    [] f.pc = "init" -> has_route(e, f, t)
    [] OTHER -> IF in.exc THEN Throw(e) ELSE Return(e, in.v)

\* CacheEngine.has
has(e, f, in, t) ==
  CASE f.pc = "start" ->
         IF NeedsInit(e) THEN CallFn(e, f, "init", InitFrame) ELSE has_route(e, f, t)
    [] f.pc = "init" -> has_route(e, f, t)
    [] OTHER -> IF in.exc THEN Return(e, FALSE) ELSE Return(e, in.v)

\* delete, from the tier decision on.
delete_route(e, f, t) ==
  IF isPrimaryActive(e) THEN Await(e, f, "prim", "client.del")
  ELSE LET wasPresent == MapHas(e.memoryCache, f.key)
       IN IF wasPresent
          THEN Return(Bump([e EXCEPT !.memoryCache = MapDelete(@, f.key)], "removals"), TRUE)
          ELSE Return(e, FALSE)

\* CacheEngine.delete
delete(e, f, in, t) ==
  CASE f.pc = "start" ->
         IF NeedsInit(e) THEN CallFn(e, f, "init", InitFrame) ELSE delete_route(e, f, t)
    [] f.pc = "init" -> delete_route(e, f, t)
    [] OTHER ->  \* after `await this.primaryClient.del(key)`
         IF in.exc THEN Return(e, FALSE) ELSE Return(Bump(e, "removals"), in.v > 0)

\* `currentVal + step` on JavaScript numbers.
Plus(v, step) == IF v.t = "NaN" THEN NaN ELSE Num(v.n + step)

\* increment, from the tier decision on.
increment_route(e, f, t) ==
  IF isPrimaryActive(e) THEN Await(e, f, "prim", "client.incr")
  ELSE LET i == MapIndex(e.memoryCache, f.key)
           currentVal ==
             IF i # 0 /\ ~Expired(e.memoryCache[i], t)
                /\ e.memoryCache[i].value.t \in {"number", "NaN"}
             THEN e.memoryCache[i].value ELSE Num(0)
           updatedVal == Plus(currentVal, f.step)
       IN CallFn(e, [f EXCEPT !.updatedVal = updatedVal], "set",
                 SetFrame(f.key, updatedVal, Undefined))

\* CacheEngine.increment: the only operation whose catch block rethrows.
increment(e, f, in, t) ==
  CASE f.pc = "start" ->
         IF NeedsInit(e) THEN CallFn(e, f, "init", InitFrame) ELSE increment_route(e, f, t)
    [] f.pc = "init" -> increment_route(e, f, t)
    [] f.pc = "client.incr" -> IF in.exc THEN Throw(e) ELSE Return(e, Num(in.v))
    [] OTHER -> Return(e, f.updatedVal)  \* after `await this.set(key, updatedVal)`

\* ----------------------------------------------------- composite operations
GetOrSetFrame(key, supplied, lifespan) ==
  [fn |-> "getOrSet", pc |-> "start", w |-> "run", key |-> key,
   supplied |-> supplied, lifespan |-> lifespan]
RateLimitFrame(key, maxRequests, windowSeconds) ==
  [fn |-> "rateLimit", pc |-> "start", w |-> "run", key |-> key,
   maxRequests |-> maxRequests, windowSeconds |-> windowSeconds,
   window |-> 0, controlKey |-> "", current |-> Null]
CreateSessionFrame(sessionId, userId, sessionData, lifespan) ==
  [fn |-> "createSession", pc |-> "start", w |-> "run", key |-> sessionId,
   userId |-> userId, sessionData |-> sessionData, lifespan |-> lifespan]
GetSessionFrame(sessionId) ==
  [fn |-> "getSession", pc |-> "start", w |-> "run", key |-> sessionId, session |-> Null,
   calledAt |-> 0]
DeleteSessionFrame(sessionId) ==
  [fn |-> "deleteSession", pc |-> "start", w |-> "run", key |-> sessionId]
ClearFrame == [fn |-> "clear", pc |-> "start", w |-> "run"]
GetTTLFrame(key) == [fn |-> "getTTL", pc |-> "start", w |-> "run", key |-> key]
SetTTLFrame(key, seconds) ==
  [fn |-> "setTTL", pc |-> "start", w |-> "run", key |-> key, ttl |-> seconds]
ShutdownFrame == [fn |-> "shutdown", pc |-> "start", w |-> "run"]
DiagnosticsFrame == [fn |-> "diagnostics", pc |-> "start", w |-> "run"]
SetBatchFrame(data, lifespan) ==
  [fn |-> "setBatch", pc |-> "start", w |-> "run", data |-> data,
   lifespan |-> lifespan, kids |-> <<>>]
GetBatchFrame(keys) ==
  [fn |-> "getBatch", pc |-> "start", w |-> "run", keys |-> keys, kids |-> <<>>]

\* CacheEngine.getOrSet: f.supplied is the value the generator will produce.
getOrSet(e, f, in, t) ==
  CASE f.pc = "start" -> CallFn(e, f, "get", GetFrame(f.key))
    [] f.pc = "get" ->
         IF in.exc THEN Throw(e)
         ELSE IF in.v # Null THEN Return(e, in.v)
         ELSE Await(e, f, "promise", "generator")
    [] f.pc = "generator" -> CallFn(e, f, "set", SetFrame(f.key, f.supplied, f.lifespan))
    [] OTHER -> IF in.exc THEN Throw(e) ELSE Return(e, f.supplied)

\* `traffic:${key}:${window}`
ControlKey(key, window) == "traffic:" \o key \o ":" \o ToString(window)

\* The result of rateLimit for a counter value.
TrafficResult(f, current) ==
  [permitted |-> current.t = "number" /\ current.n <= f.maxRequests,
   quota |-> IF current.t # "number" THEN NaN
             ELSE IF f.maxRequests - current.n > 0 THEN Num(f.maxRequests - current.n)
             ELSE Num(0),
   windowReset |-> (f.window + 1) * f.windowSeconds * 1000,
   requestCount |-> current]

\* A catch block that would fail closed instead.
FailClosed(f, t) ==
  [permitted |-> FALSE, quota |-> Num(0),
   windowReset |-> t + f.windowSeconds * 1000, requestCount |-> Num(1)]

\* The catch block of rateLimit: fail open, one request counted.
FailOpen(f, t) ==
  [permitted |-> TRUE, quota |-> Num(f.maxRequests - 1),
   windowReset |-> t + f.windowSeconds * 1000, requestCount |-> Num(1)]

\* CacheEngine.rateLimit
rateLimit(e, f, in, t) ==
  CASE f.pc = "start" ->
         LET window == t \div (f.windowSeconds * 1000)
             controlKey == ControlKey(f.key, window)
         IN CallFn(e, [f EXCEPT !.window = window, !.controlKey = controlKey],
                   "increment", IncrementFrame(controlKey, 1))
    [] f.pc = "increment" ->
         IF in.exc THEN Return(e, FailOpen(f, t))
         ELSE IF in.v = Num(1)
         THEN CallFn(e, [f EXCEPT !.current = in.v], "set",
                     SetFrame(f.controlKey, in.v, f.windowSeconds))
         ELSE Return(e, TrafficResult(f, in.v))
    [] OTHER ->  \* after `await this.set(controlKey, current, windowSeconds)`
         IF in.exc THEN Return(e, FailOpen(f, t))
         ELSE Return(e, TrafficResult(f, f.current))

\* `user_session:${sessionId}`
SessionKey(sessionId) == "user_session:" \o sessionId

\* `lifespan ?? 86400`
DefaultSessionLifespan == 86400

\* CacheEngine.createSession
createSession(e, f, in, t) ==
  CASE f.pc = "start" ->
         CallFn(e, f, "set",
                SetFrame(SessionKey(f.key), SessionObj(f.userId, f.sessionData, t, t),
                         IF f.lifespan # Undefined THEN f.lifespan
                         ELSE DefaultSessionLifespan))
    [] OTHER -> IF in.exc THEN Throw(e) ELSE Return(e, in.v)

\* getSession that returns the refreshed record without storing it.
getSession_unsaved(e, f, in, t) ==
  CASE f.pc = "start" ->
         CallFn(e, [f EXCEPT !.calledAt = t], "get", GetFrame(SessionKey(f.key)))
    [] OTHER ->
         IF in.exc THEN Throw(e)
         ELSE IF ~Truthy(in.v) THEN Return(e, in.v)
         ELSE Return(e, [in.v EXCEPT !.lastActive = t])

\* CacheEngine.getSession.  On the local tier get returns the stored object
\* itself, so `session.lastActive = Date.now()` also changes the resident entry.
\* calledAt keeps the time of the call.
getSession(e, f, in, t) ==
  CASE f.pc = "start" ->
         CallFn(e, [f EXCEPT !.calledAt = t], "get", GetFrame(SessionKey(f.key)))
    [] f.pc = "get" ->
         IF in.exc THEN Throw(e)
         ELSE IF ~Truthy(in.v) THEN Return(e, in.v)
         ELSE IF in.v.t # "object" THEN Throw(e)  \* strict mode: property of a primitive
         ELSE LET session == [in.v EXCEPT !.lastActive = t]
                  i == MapIndex(e.memoryCache, SessionKey(f.key))
                  e1 == IF i # 0 /\ e.memoryCache[i].value = in.v
                        THEN [e EXCEPT !.memoryCache[i].value = session] ELSE e
              IN CallFn(e1, [f EXCEPT !.session = session], "set",
                        SetFrame(SessionKey(f.key), session, Undefined))
    [] OTHER -> IF in.exc THEN Throw(e) ELSE Return(e, f.session)

\* CacheEngine.deleteSession
deleteSession(e, f, in, t) ==
  CASE f.pc = "start" -> CallFn(e, f, "delete", DeleteFrame(SessionKey(f.key)))
    [] OTHER -> IF in.exc THEN Throw(e) ELSE Return(e, in.v)

\* The metrics object clear() installs, and the constructor's.
ZeroMetrics ==
  [successful |-> 0, failed |-> 0, writes |-> 0, removals |-> 0, currentSize |-> 0,
   efficiency |-> [num |-> 0, den |-> 1]]

\* clear that resets the counters whether or not the flush succeeded.
clear_finally(e, f, in, t) ==
  CASE f.pc = "start" ->
         IF isPrimaryActive(e) THEN Await(e, f, "prim", "FLUSHDB")
         ELSE Return([e EXCEPT !.memoryCache = <<>>, !.metrics = ZeroMetrics], TRUE)
    [] OTHER -> Return([e EXCEPT !.metrics = ZeroMetrics], ~in.exc)

\* CacheEngine.clear
clear(e, f, in, t) ==
  CASE f.pc = "start" ->
         IF isPrimaryActive(e) THEN Await(e, f, "prim", "FLUSHDB")
         ELSE Return([e EXCEPT !.memoryCache = <<>>, !.metrics = ZeroMetrics], TRUE)
    [] OTHER ->
         IF in.exc THEN Return(e, FALSE) ELSE Return([e EXCEPT !.metrics = ZeroMetrics], TRUE)

\* CacheEngine.getTTL
getTTL(e, f, in, t) ==
  CASE f.pc = "start" ->
         IF isPrimaryActive(e) THEN Await(e, f, "prim", "client.ttl")
         ELSE LET i == MapIndex(e.memoryCache, f.key)
              IN IF i = 0 THEN Return(e, -2)
                 ELSE IF e.memoryCache[i].expiration = Undefined
                         \/ e.memoryCache[i].expiration = 0
                 THEN Return(e, -1)
                 ELSE LET remaining == IF e.memoryCache[i].expiration - t > 0
                                       THEN e.memoryCache[i].expiration - t ELSE 0
                      IN Return(e, remaining \div 1000)
    [] OTHER -> IF in.exc THEN Return(e, -2) ELSE Return(e, in.v)

\* CacheEngine.setTTL
setTTL(e, f, in, t) ==
  CASE f.pc = "start" ->
         IF isPrimaryActive(e) THEN Await(e, f, "prim", "client.expire")
         ELSE LET i == MapIndex(e.memoryCache, f.key)
              IN IF i # 0
                 THEN Return([e EXCEPT !.memoryCache[i].expiration = t + f.ttl * 1000], TRUE)
                 ELSE Return(e, FALSE)
    [] OTHER -> IF in.exc THEN Return(e, FALSE) ELSE Return(e, TRUE)

\* shutdown that leaves the closed client in place.
shutdown_keeping(e, f, in, t) ==
  Return([e EXCEPT !.memoryCache = <<>>, !.primaryActive = FALSE,
                   !.connection = IF e.primaryClient # "null" THEN "shut" ELSE @], Null)

\* CacheEngine.shutdown
shutdown(e, f, in, t) ==
  LET e1 == IF e.primaryClient # "null"
            THEN [e EXCEPT !.primaryClient = "null", !.connection = "shut"] ELSE e
  IN Return([e1 EXCEPT !.memoryCache = <<>>, !.primaryActive = FALSE], Null)

\* getMetrics that returns the efficiency it stored the last time.
getMetrics_stale(e) ==
  LET m == [e.metrics EXCEPT
              !.currentSize = IF isPrimaryActive(e) THEN -1 ELSE Len(e.memoryCache)]
  IN [e |-> [e EXCEPT !.metrics = m], v |-> m]

\* CacheEngine.getMetrics: efficiency is the fraction successful / totalOps.
getMetrics(e) ==
  LET totalOps == e.metrics.successful + e.metrics.failed
      m == [e.metrics EXCEPT
              !.efficiency = IF totalOps > 0
                             THEN [num |-> e.metrics.successful, den |-> totalOps]
                             ELSE [num |-> 0, den |-> 1],
              !.currentSize = IF isPrimaryActive(e) THEN -1 ELSE Len(e.memoryCache)]
  IN [e |-> [e EXCEPT !.metrics = m], v |-> m]

\* CacheEngine.diagnostics
diagnostics(e, f, in, t) ==
  CASE f.pc = "start" /\ e.primaryClient # "null" -> Await(e, f, "prim", "PING")
    [] OTHER ->
         LET primaryHealthy == f.pc # "start" /\ ~in.exc
             m == getMetrics(e)
         IN Return(m.e, [primaryActive |-> primaryHealthy, memoryActive |-> TRUE,
                         metrics |-> m.v])

\* Promise.all over the calls a batch starts: each runs at once up to its first
\* await ("spawn"), the batch resumes when all have settled.
Spawn(e, f, frames) == [act |-> "spawn", e |-> e, f |-> [f EXCEPT !.pc = "all"], frames |-> frames]

\* CacheEngine.setBatch
setBatch(e, f, in, t) ==
  CASE f.pc = "start" ->
         Spawn(e, f, [i \in 1..Len(f.data) |->
                        SetFrame(f.data[i].key, f.data[i].value, f.lifespan)])
    [] OTHER ->
         IF \E i \in 1..Len(f.kids) : f.kids[i].res.exc THEN Return(e, FALSE)
         ELSE Return(e, \A i \in 1..Len(f.kids) : f.kids[i].res.v)

\* CacheEngine.getBatch: the record of every requested key.
getBatch(e, f, in, t) ==
  CASE f.pc = "start" -> Spawn(e, f, [i \in 1..Len(f.keys) |-> GetFrame(f.keys[i])])
    [] OTHER ->
         LET keySet == {f.keys[i] : i \in 1..Len(f.keys)}
             lastOf(k) == CHOOSE i \in 1..Len(f.keys) :
                            f.keys[i] = k /\ \A j \in (i + 1)..Len(f.keys) : f.keys[j] # k
         IN IF \E i \in 1..Len(f.kids) : f.kids[i].res.exc
            THEN Return(e, [k \in keySet |-> Null])
            ELSE Return(e, [k \in keySet |-> f.kids[lastOf(k)].res.v])

\* ---------------------------------------------------------------- CacheService
AcquireLockFrame(lockKey, duration, timeout, lockToken) ==
  [fn |-> "acquireLock", pc |-> "start", w |-> "run", key |-> lockKey,
   duration |-> duration, timeout |-> timeout, lockToken |-> lockToken,
   startTime |-> 0, wake |-> 0, setAt |-> 0]
ReleaseLockFrame(lockKey) ==
  [fn |-> "releaseLock", pc |-> "start", w |-> "run", key |-> lockKey]

\* `setTimeout(resolve, 10)`
PollInterval == 10

\* The cache key acquireLock and releaseLock use for lockKey.
LockCacheKey(lockKey) == lockKey

\* A loop that would never test the elapsed time.
acquireLock_untimed(e, f, t) == CallFn(e, f, "get", GetFrame(LockCacheKey(f.key)))

\* One test of the while condition of acquireLock, and what follows it.
acquireLock_loop(e, f, t) ==
  IF t - f.startTime < f.timeout
  THEN CallFn(e, f, "get", GetFrame(LockCacheKey(f.key)))
  ELSE Return(e, FALSE)

\* The sleep at the end of an iteration.
acquireLock_sleep(e, f, t) == Await(e, [f EXCEPT !.wake = t + PollInterval], "timer", "sleep")

\* CacheService.acquireLock
acquireLock(e, f, in, t) ==
  CASE f.pc = "start" -> acquireLock_loop(e, [f EXCEPT !.startTime = t], t)
    [] f.pc = "get" ->
         IF in.exc THEN Throw(e)
         ELSE IF ~Truthy(in.v)
         THEN CallFn(e, [f EXCEPT !.setAt = t], "set",
                     SetFrame(LockCacheKey(f.key), Str(f.lockToken), f.duration))
         ELSE acquireLock_sleep(e, f, t)
    [] f.pc = "set" ->
         IF in.exc THEN Throw(e)
         ELSE IF in.v THEN Return(e, TRUE)
         ELSE acquireLock_sleep(e, f, t)
    [] OTHER -> acquireLock_loop(e, f, t)  \* the timer fired

\* A releaseLock that would leave the lock record alone.
releaseLock_keeping(e, f, in, t) == Return(e, FALSE)

\* CacheService.releaseLock
releaseLock(e, f, in, t) ==
  CASE f.pc = "start" -> CallFn(e, f, "delete", DeleteFrame(LockCacheKey(f.key)))
    [] OTHER -> IF in.exc THEN Throw(e) ELSE Return(e, in.v)

\* ------------------------------------------------------- the music library
\* The callers of the engine in core/music/music.ts, on the exported
\* cacheEngine.
KEYGENMUSIC_URL == "https://keygenmusic.tk"

\* `${CACHE_KEY_BASE}${type}:${identifier}`
getCacheKey(type, identifier) == "KEYGENMUSIC:" \o type \o ":" \o identifier

\* A MusicType, and an Array of them.
MusicObj(id, composer, software, metadata, path) ==
  [t |-> "music", id |-> id, composer |-> composer, software |-> software,
   metadata |-> metadata, path |-> path]
ArrayOf(items) == [t |-> "array", items |-> items]

\* Number(id) for the ids of the requests.
NumberOf(id) == CASE id = "1" -> 1 [] id = "2" -> 2 [] id = "9" -> 9 [] OTHER -> 0

\* Array.prototype.find(music => music.id === n): the first such entry or
\* undefined (null here).
FindById(items, n) ==
  IF \E i \in 1..Len(items) : items[i].id = n
  THEN items[CHOOSE i \in 1..Len(items) :
               items[i].id = n /\ \A j \in 1..(i - 1) : items[j].id # n]
  ELSE Null

GetDownloadUrlFrame(id) ==
  [fn |-> "getDownloadUrl", pc |-> "start", w |-> "run", id |-> id, completeUrl |-> Null]
InfoFrame(id, internal) ==
  [fn |-> "info", pc |-> "start", w |-> "run", id |-> id, internal |-> internal,
   info |-> Null]
GetLibraryFrame ==
  [fn |-> "getLibrary", pc |-> "start", w |-> "run", library |-> Null]

\* getLibrary: the cached library, or the one fetched from lib.txt.
getLibrary(e, f, in, t) ==
  CASE f.pc = "start" -> CallFn(e, f, "get", GetFrame(getCacheKey("library", "")))
    [] f.pc = "get" ->
         IF in.exc THEN Throw(e)
         ELSE IF Truthy(in.v) THEN Return(e, in.v)
         ELSE Await(e, f, "fetch", "fetch")
    [] f.pc = "fetch" -> IF in.exc THEN Throw(e) ELSE Await(e, f, "fetch", "response.json")
    [] f.pc = "response.json" ->
         IF in.exc THEN Throw(e)
         ELSE CallFn(e, [f EXCEPT !.library = in.v], "set",
                     SetFrame(getCacheKey("library", ""), in.v, 86400))
    [] OTHER -> IF in.exc THEN Throw(e) ELSE Return(e, f.library)

\* Library.info
info(e, f, in, t) ==
  CASE f.pc = "start" ->
         CallFn(e, f, "get",
                GetFrame(getCacheKey("info", f.id \o IF f.internal THEN "internal" ELSE "")))
    [] f.pc = "get" ->
         IF in.exc THEN Throw(e)
         ELSE IF Truthy(in.v) THEN Return(e, in.v)
         ELSE CallFn(e, f, "getLibrary", GetLibraryFrame)
    [] f.pc = "getLibrary" ->
         IF in.exc THEN Throw(e)
         ELSE LET found == FindById(in.v.items, NumberOf(f.id))
                  shown == IF found = Null \/ f.internal THEN found
                           ELSE [found EXCEPT
                                   !.path = "/api/music/download/" \o ToString(found.id)]
              IN IF found = Null THEN Return(e, Null)
                 ELSE CallFn(e, [f EXCEPT !.info = shown], "set",
                             SetFrame(getCacheKey("info",
                                                  f.id \o IF f.internal THEN "internal" ELSE ""),
                                      shown, 3600))
    [] OTHER -> IF in.exc THEN Throw(e) ELSE Return(e, f.info)

\* Music.getDownloadUrl.  The cache key is built from the text `id`, not from
\* the parameter.
getDownloadUrl(e, f, in, t) ==
  CASE f.pc = "start" -> CallFn(e, f, "get", GetFrame(getCacheKey("download", "id")))
    [] f.pc = "get" ->
         IF in.exc THEN Throw(e)
         ELSE IF Truthy(in.v) THEN Return(e, in.v)
         ELSE CallFn(e, f, "info", InfoFrame(f.id, TRUE))
    [] f.pc = "info" ->
         IF in.exc THEN Throw(e)
         ELSE IF ~Truthy(in.v) THEN Return(e, Null)
         ELSE CallFn(e, [f EXCEPT !.completeUrl = Str(KEYGENMUSIC_URL \o in.v.path)], "set",
                     SetFrame(getCacheKey("download", "id"),
                              Str(KEYGENMUSIC_URL \o in.v.path), 86400))
    [] OTHER -> IF in.exc THEN Throw(e) ELSE Return(e, f.completeUrl)

\* ------------------------------------------------------------ running a task
\* The function a frame belongs to, run from the frame's suspension.
Body(e, f, in, t) ==
  CASE f.fn = "establishPrimaryConnection" -> establishPrimaryConnection(e, f, in, t)
    [] f.fn = "set" -> set(e, f, in, t)
    [] f.fn = "get" -> get(e, f, in, t)
    [] f.fn = "has" -> has(e, f, in, t)
    [] f.fn = "delete" -> delete(e, f, in, t)
    [] f.fn = "increment" -> increment(e, f, in, t)
    [] f.fn = "getOrSet" -> getOrSet(e, f, in, t)
    [] f.fn = "rateLimit" -> rateLimit(e, f, in, t)
    [] f.fn = "createSession" -> createSession(e, f, in, t)
    [] f.fn = "getSession" -> getSession(e, f, in, t)
    [] f.fn = "deleteSession" -> deleteSession(e, f, in, t)
    [] f.fn = "clear" -> clear(e, f, in, t)
    [] f.fn = "getTTL" -> getTTL(e, f, in, t)
    [] f.fn = "setTTL" -> setTTL(e, f, in, t)
    [] f.fn = "shutdown" -> shutdown(e, f, in, t)
    [] f.fn = "diagnostics" -> diagnostics(e, f, in, t)
    [] f.fn = "setBatch" -> setBatch(e, f, in, t)
    [] f.fn = "getBatch" -> getBatch(e, f, in, t)
    [] f.fn = "acquireLock" -> acquireLock(e, f, in, t)
    [] f.fn = "getLibrary" -> getLibrary(e, f, in, t)
    [] f.fn = "info" -> info(e, f, in, t)
    [] f.fn = "getDownloadUrl" -> getDownloadUrl(e, f, in, t)
    [] OTHER -> releaseLock(e, f, in, t)

AllSettled(kids) == \A i \in 1..Len(kids) : kids[i].done

\* Run the top frame of a stack with the value `in` delivered to it, through
\* the calls it makes, until the stack suspends or its last frame returns.
\* log collects the cache keys the lock operations use and the supplier runs.
RECURSIVE Run(_, _, _, _, _), StartKids(_, _, _, _, _, _)

\* What a step logs when frame f, resumed with `in`, returns or throws.
ReturnLog(f, in, out, log) ==
  IF f.fn = "set" /\ out.v THEN Append(log, [ev |-> "write", key |-> f.key])
  ELSE IF f.fn = "set" /\ f.pc \in {"start", "init"}
  THEN Append(log, [ev |-> "fault"])  \* JSON.stringify threw
  ELSE IF f.fn = "get" /\ f.pc = "client.get" /\ ~in.exc /\ RawTruthy(in.v)
          /\ JSONparse(in.v).exc
  THEN Append(log, [ev |-> "fault"])  \* JSON.parse threw
  ELSE log

\* What a step logs of the outcome when frame f returns or throws: a get that
\* gives a value or a miss, a clear that reports success, a shutdown.
OutcomeLog(f, out, log) ==
  IF f.fn = "get"
  THEN Append(log, [ev |-> IF out.v # Null THEN "hit" ELSE "miss", key |-> f.key])
  ELSE IF f.fn = "clear" /\ out.act = "return" /\ out.v
  THEN Append(log, [ev |-> "clear"])
  ELSE IF f.fn = "shutdown" THEN Append(log, [ev |-> "shutdown"])
  ELSE log

\* The operations that read or write a store.
StoreOps == {"get", "set", "has", "delete", "increment", "getTTL", "setTTL", "clear"}

\* What a step logs of the tier frame f turns to: Redis when it awaits a
\* command, the local store when it returns from its else branch.
TierLog(f, out, log) ==
  IF f.fn \notin StoreOps THEN log
  ELSE IF out.act = "await"
  THEN IF out.f.w = "prim" THEN Append(log, [ev |-> "tier", tier |-> "remote"]) ELSE log
  ELSE IF f.pc \in {"start", "init"} /\ ~isPrimaryActive(out.e)
  THEN Append(log, [ev |-> "tier", tier |-> "local"])
  ELSE log

\* A batch frame with its calls started.
Spawned(e, below, g, k) ==
  [e |-> k.e,
   stack |-> Append(below, [g EXCEPT !.kids = k.kids,
                                    !.w = IF AllSettled(k.kids) THEN "resume" ELSE "kids"]),
   pend |-> NoInput, done |-> FALSE, res |-> NoInput, frame |-> g, log |-> k.log]

\* The step of frame f (on top of `below`) whose outcome is `out`.
Continue(below, f, in, t, log, out) ==
  CASE out.act = "await" ->
         [e |-> out.e, stack |-> Append(below, out.f), pend |-> NoInput,
          done |-> FALSE, res |-> NoInput, frame |-> out.f,
          log |-> IF out.f.w = "promise"
                  THEN Append(log, [ev |-> "supplier", key |-> f.key])
                  ELSE TierLog(f, out, log)]
    [] out.act = "call" ->
         Run(out.e, Append(Append(below, out.f), out.callee), NoInput, t,
             IF f.fn \in {"acquireLock", "releaseLock"}
             THEN Append(log, [ev |-> "lock", lockKey |-> f.key, key |-> out.callee.key])
             ELSE IF f.fn = "rateLimit" /\ out.callee.fn = "increment"
             THEN Append(log, [ev |-> "rate", key |-> out.callee.key])
             ELSE log)
    [] out.act = "spawn" ->
         Spawned(out.e, below, out.f, StartKids(out.e, out.frames, 1, <<>>, t, log))
    [] OTHER ->  \* return or throw
         IF below = <<>>
         THEN [e |-> out.e, stack |-> <<>>, pend |-> NoInput, done |-> TRUE,
               res |-> [exc |-> out.act = "throw", v |-> out.v], frame |-> f,
               log |-> TierLog(f, out, OutcomeLog(f, out, ReturnLog(f, in, out, log)))]
         ELSE [e |-> out.e, stack |-> below,
               pend |-> [exc |-> out.act = "throw", v |-> out.v], done |-> FALSE,
               res |-> NoInput, frame |-> f,
               log |-> TierLog(f, out, OutcomeLog(f, out, ReturnLog(f, in, out, log)))]

Run(e, stack, in, t, log) ==
  Continue(SubSeq(stack, 1, Len(stack) - 1), stack[Len(stack)], in, t, log,
           Body(e, stack[Len(stack)], in, t))

\* The calls of a batch, started one after the other.
KidOf(r) == [stack |-> r.stack, pend |-> r.pend, done |-> r.done, res |-> r.res]
StartKid(frames, i, kids, t, r) ==
  StartKids(r.e, frames, i + 1, Append(kids, KidOf(r)), t, r.log)
StartKids(e, frames, i, kids, t, log) ==
  IF i > Len(frames) THEN [e |-> e, kids |-> kids, log |-> log]
  ELSE StartKid(frames, i, kids, t, Run(e, <<frames[i]>>, NoInput, t, log))

\* The CacheEngine constructor: the engine, and the handshake it starts in the
\* background when an endpoint is configured.
NewEngine(config) ==
  [config |-> config, primaryClient |-> "null", primaryActive |-> FALSE,
   connectionReady |-> FALSE, memoryCache |-> <<>>, metrics |-> ZeroMetrics,
   handlers |-> FALSE, connection |-> "none"]

constructor(config, t) ==
  IF config.primaryEndpoint # ""
  THEN Run(NewEngine(config), <<InitFrame>>, NoInput, t, <<>>)
  ELSE [e |-> NewEngine(config), stack |-> <<>>]

\* --------------------------------------------------------------- the actions
Procs == {1, 2}
\* Task 0 is the constructor's background handshake.
Background == 0


Top(p) == tasks[p].stack[Len(tasks[p].stack)]
Waiting(p, w) == tasks[p].stack # <<>> /\ Top(p).w = w

Count(f, k) == IF k \in DOMAIN f THEN f[k] ELSE 0
Events(log, ev) == {i \in 1..Len(log) : log[i].ev = ev}
KeysOf(log, ev) == {log[i].key : i \in Events(log, ev)}
Tally(f, ks) == [k \in DOMAIN f \cup ks |-> Count(f, k) + IF k \in ks THEN 1 ELSE 0]

\* Keys resident in the local store past their expiration.
Lapsed(e, t) ==
  {e.memoryCache[i].key : i \in {j \in 1..Len(e.memoryCache) : Expired(e.memoryCache[j], t)}}

\* The count n of the events ev since the last successful clear, after the
\* events i.. of log.
RECURSIVE Since(_, _, _, _)
Since(n, log, i, ev) ==
  IF i > Len(log) THEN n
  ELSE Since(IF log[i].ev = "clear" THEN 0 ELSE IF log[i].ev = ev THEN n + 1 ELSE n,
             log, i + 1, ev)

\* Keys resident in the local store.
Resident(e) == {e.memoryCache[i].key : i \in 1..Len(e.memoryCache)}

\* Keys a step that wrote to the local store has removed from it: the step's
\* set runs evict() and nothing else that deletes.
Evicted(log, e) ==
  IF KeysOf(log, "write") # {} /\ ~isPrimaryActive(engine)
  THEN Resident(engine) \ Resident(e) ELSE {}

\* The history after a step that logged `log` and left the engine as e at time t.
HistAfter(h, log, e, t) ==
  [h EXCEPT
     !.evicted = @ \cup Evicted(log, e),
     !.hits = Since(@, log, 1, "hit"),
     !.misses = Since(@, log, 1, "miss"),
     !.written = Since(@, log, 1, "write"),
     !.shut = @ \/ Events(log, "shutdown") # {},
     !.supplierCalls = Tally(@, KeysOf(log, "supplier")),
     !.rateCalls = Tally(@, KeysOf(log, "rate")),
     !.lockAccess = @ \cup {<<log[i].lockKey, log[i].key>> : i \in Events(log, "lock")},
     !.lapsed = (@ \ KeysOf(log, "write")) \cup Lapsed(e, t)]

\* The tiers the current call of task p has turned to, kept when the run
\* observes them.
Tiers(h, p, log, fresh) ==
  IF ~h.track THEN h
  ELSE [h EXCEPT !.tiers[p] = (IF fresh THEN {} ELSE @)
                               \cup {log[i].tier : i \in Events(log, "tier")}]

\* The sessions whose deleteSession has returned, each with the number of calls
\* made until then, kept when the run observes them: a createSession call
\* takes its session out.
Deleted(h, call, r, n) ==
  IF ~h.track THEN h
  ELSE IF call.fn = "createSession"
  THEN [h EXCEPT !.deletedAt = [k \in DOMAIN @ \ {call.key} |-> @[k]]]
  ELSE IF call.fn = "deleteSession" /\ r.done
  THEN [h EXCEPT !.deletedAt = [k \in DOMAIN @ \cup {call.key} |->
                                  IF k = call.key THEN n ELSE @[k]]]
  ELSE h

\* The grant a completed acquireLock adds to the history.
Granted(h, p, call, r) ==
  IF r.done /\ call.fn = "acquireLock" /\ ~r.res.exc /\ r.res.v
  THEN [h EXCEPT !.holders = @ \cup
          {[task |-> p, key |-> call.key,
            until |-> r.frame.setAt + r.frame.duration * 1000]}]
  ELSE h

\* A call of releaseLock ends the grants of its key.
Released(h, call) ==
  IF call.fn = "releaseLock" THEN [h EXCEPT !.holders = {g \in @ : g.key # call.key}]
  ELSE h

\* The state after task p has run to its next suspension with outcome r.
Apply(p, r, faults) ==
  \E out \in {r} :
    /\ engine' = out.e
    /\ tasks' = [tasks EXCEPT ![p].stack = out.stack, ![p].pend = out.pend,
                              ![p].res = out.res, ![p].done = out.done,
                              ![p].faults = @ + faults + Cardinality(Events(out.log, "fault")),
                              ![p].frame = IF out.done THEN out.frame ELSE NoCall]
    /\ hist' = Deleted(Tiers(Granted(HistAfter(hist, out.log, out.e, now),
                                      p, tasks[p].call, out),
                              p, out.log, FALSE),
                        IF tasks[p].call.fn = "createSession" THEN NoCall ELSE tasks[p].call,
                        out, calls)

\* The state after task p has started the call `frame` with outcome r.
Started(p, frame, r) ==
  \E out \in {r} :
    /\ engine' = out.e
    /\ tasks' = [tasks EXCEPT ![p] =
                   [call |-> frame, done |-> out.done, seq |-> calls + 1,
                    faults |-> Cardinality(Events(out.log, "fault")),
                    frame |-> IF out.done THEN out.frame ELSE NoCall,
                    stack |-> out.stack, pend |-> out.pend, res |-> out.res,
                    prev |-> [call |-> tasks[p].call, seq |-> tasks[p].seq,
                             res |-> tasks[p].res]]]
    /\ hist' = Deleted(Tiers(Granted(Released(HistAfter(hist, out.log, out.e, now), frame),
                                      p, frame, out),
                              p, out.log, TRUE),
                        frame, out, calls + 1)

\* A caller invokes a public operation: it runs up to its first await.
Start(p, frame) ==
  /\ tasks[p].stack = <<>>
  /\ calls < MaxCalls
  /\ calls' = calls + 1
  /\ Started(p, frame, Run(engine, <<frame>>, NoInput, now, <<>>))
  /\ UNCHANGED <<remote, now>>

\* The microtask that resumes a caller whose callee (or batch) has settled.
Resume(p) ==
  /\ Waiting(p, "resume")
  /\ Apply(p, Run(engine, tasks[p].stack, tasks[p].pend, now, <<>>), 0)
  /\ UNCHANGED <<remote, now, calls>>

\* lib.txt as keygenmusic serves it, mapped to MusicType entries.
LibraryData ==
  ArrayOf(<<MusicObj(1, "c1", "s1", "m1", "/kgm/one.xm"),
            MusicObj(2, "c2", "s2", "m2", "/kgm/two.xm")>>)

\* The fetch of lib.txt, or the reading of its body, completes.
FetchReply(p) ==
  /\ Waiting(p, "fetch")
  /\ Apply(p, Run(engine, tasks[p].stack,
                  [exc |-> FALSE, v |-> IF Top(p).pc = "fetch" THEN Null ELSE LibraryData],
                  now, <<>>), 0)
  /\ UNCHANGED <<remote, now, calls>>

\* The supplier's promise resolves.
SupplierDone(p) ==
  /\ Waiting(p, "promise")
  /\ Apply(p, Run(engine, tasks[p].stack, NoInput, now, <<>>), 0)
  /\ UNCHANGED <<remote, now, calls>>

\* The state after Redis has answered task p's command with pr.
Replied(p, pr) ==
  /\ remote' = pr.r
  /\ Apply(p, Run(engine, tasks[p].stack, [exc |-> pr.exc, v |-> pr.v], now, <<>>),
           IF pr.exc THEN 1 ELSE 0)

\* Redis executes the awaited command and the reply is delivered.
RedisReply(p) ==
  /\ Waiting(p, "prim")
  /\ Replied(p, Prim(remote, Top(p), now))
  /\ UNCHANGED <<now, calls>>

\* The awaited command fails in transport: the promise rejects.
RedisError(p) ==
  /\ Waiting(p, "prim")
  /\ Apply(p, Run(engine, tasks[p].stack, [exc |-> TRUE, v |-> Nil], now, <<>>), 1)
  /\ UNCHANGED <<remote, now, calls>>

\* The setTimeout of acquireLock fires.
TimerFire(p) ==
  /\ Waiting(p, "timer")
  /\ now >= Top(p).wake
  /\ Apply(p, Run(engine, tasks[p].stack, NoInput, now, <<>>), 0)
  /\ UNCHANGED <<remote, now, calls>>

\* The batch frame g of task p after its i-th call has run on with outcome r.
KidRan(p, g, i, r, faults) ==
  \E out \in {r} :
    /\ engine' = out.e
    /\ tasks' = [tasks EXCEPT
         ![p].stack[Len(tasks[p].stack)] =
            [g EXCEPT !.kids[i] = KidOf(out),
                      !.w = IF out.done /\ AllSettled([g.kids EXCEPT ![i].done = TRUE])
                            THEN "resume" ELSE "kids"],
         ![p].faults = @ + faults + Cardinality(Events(out.log, "fault"))]
    /\ hist' = Tiers(HistAfter(hist, out.log, out.e, now), p, out.log, FALSE)

KidReplied(p, i, kid, pr) ==
  /\ remote' = pr.r
  /\ KidRan(p, Top(p), i, Run(engine, kid.stack, [exc |-> pr.exc, v |-> pr.v], now, <<>>),
            IF pr.exc THEN 1 ELSE 0)

\* One call of a batch gets its reply (exc = FALSE) or its rejection.
KidStep(p, i, exc) ==
  /\ Waiting(p, "kids")
  /\ i \in 1..Len(Top(p).kids)
  /\ ~Top(p).kids[i].done
  /\ KidReplied(p, i, Top(p).kids[i],
                IF exc THEN [r |-> remote, exc |-> TRUE, v |-> Nil]
                ELSE Prim(remote, Top(p).kids[i].stack[Len(Top(p).kids[i].stack)], now))
  /\ UNCHANGED <<now, calls>>

KidReply(p, i) == KidStep(p, i, FALSE)
KidError(p, i) == KidStep(p, i, TRUE)

\* The clock advances by d milliseconds, up to the horizon of the run.
Tick(d, horizon) ==
  /\ now + d <= horizon
  /\ now' = now + d
  /\ hist' = [hist EXCEPT !.lapsed = @ \cup Lapsed(engine, now + d)]
  /\ UNCHANGED <<engine, remote, tasks, calls>>

\* The handshake's PING is answered, or fails.
HandshakeOK ==
  /\ Waiting(Background, "prim")
  /\ Apply(Background, Run(engine, tasks[Background].stack, NoInput, now, <<>>), 0)
  /\ UNCHANGED <<remote, now, calls>>

HandshakeFail ==
  /\ Waiting(Background, "prim")
  /\ Apply(Background,
           Run(engine, tasks[Background].stack, [exc |-> TRUE, v |-> Nil], now, <<>>), 1)
  /\ UNCHANGED <<remote, now, calls>>

\* primaryClient.onclose: the connection dropped.
OnClose ==
  /\ engine.handlers
  /\ engine.connection = "open"
  /\ engine' = [engine EXCEPT !.connection = "closed", !.primaryActive = FALSE]
  /\ UNCHANGED <<remote, now, tasks, calls, hist>>

\* primaryClient.onconnect: the client reconnected.
OnConnect ==
  /\ engine.handlers
  /\ engine.connection # "open"
  /\ engine' = [engine EXCEPT !.connection = "open", !.primaryActive = TRUE]
  /\ UNCHANGED <<remote, now, tasks, calls, hist>>

\* The state after the constructor has returned c at time t; track tells
\* whether the run observes the tiers each call turns to.
ConstructedAs(c, t, track) ==
  /\ engine = c.e
  /\ tasks = [p \in Procs \cup {Background} |->
                IF p = Background /\ c.stack # <<>>
                THEN [FreshTask EXCEPT !.stack = c.stack, !.call = InitFrame,
                                       !.done = FALSE]
                ELSE FreshTask]
  /\ remote = [k \in {} |-> Nil]
  /\ now = t
  /\ calls = 0
  /\ hist = [supplierCalls |-> [k \in {} |-> 0], rateCalls |-> [k \in {} |-> 0],
             lockAccess |-> {}, holders |-> {}, lapsed |-> {}, evicted |-> {},
             hits |-> 0, misses |-> 0, written |-> 0, shut |-> FALSE,
             track |-> track, tiers |-> [p \in Procs \cup {Background} |-> {}],
             deletedAt |-> [k \in {} |-> 0]]

Constructed(c, t) == ConstructedAs(c, t, FALSE)

\* The state after `new CacheEngine(config)` at time t.
InitEngine(config, t) == Constructed(constructor(config, t), t)

\* Another client of the shared Redis stores a text that is not JSON.
ForeignWrite(k) ==
  /\ remote' = RPut(remote, k, Garbage, Undefined)
  /\ UNCHANGED <<engine, now, tasks, calls, hist>>

\* The configuration `new CacheEngine()` gets with no REDIS_URL set, and the
\* one it gets with REDIS_URL set.
DefaultConfig == [primaryEndpoint |-> "", entryLifespan |-> 3600, memoryTierLimit |-> 10000]
RedisConfig == [DefaultConfig EXCEPT !.primaryEndpoint = "redis://cache"]

\* Date.now() when the engine is constructed.
StartTime == 1000

\* The tasks that are callers, and the one caller of the runs in which calls
\* are made one after the other.
Caller == 1
Callers == DOMAIN tasks \ {Background}
Solo == Callers \cap {Caller}

\* Task p has completed a call in this step.
Completes(p) == tasks'[p].done /\ (~tasks[p].done \/ tasks'[p].seq # tasks[p].seq)

CallSet(p, key, value, lifespan) == Start(p, SetFrame(key, value, lifespan))
CallGet(p, key) == Start(p, GetFrame(key))
CallHas(p, key) == Start(p, HasFrame(key))
CallDelete(p, key) == Start(p, DeleteFrame(key))
CallIncrement(p, key, step) == Start(p, IncrementFrame(key, step))
CallGetOrSet(p, key, supplied, lifespan) == Start(p, GetOrSetFrame(key, supplied, lifespan))
CallRateLimit(p, key, maxRequests, windowSeconds) ==
  Start(p, RateLimitFrame(key, maxRequests, windowSeconds))
CallCreateSession(p, sessionId, userId, data, lifespan) ==
  Start(p, CreateSessionFrame(sessionId, userId, data, lifespan))
CallGetSession(p, sessionId) == Start(p, GetSessionFrame(sessionId))
CallDeleteSession(p, sessionId) == Start(p, DeleteSessionFrame(sessionId))
CallClear(p) == Start(p, ClearFrame)
CallGetTTL(p, key) == Start(p, GetTTLFrame(key))
CallSetTTL(p, key, seconds) == Start(p, SetTTLFrame(key, seconds))
CallShutdown(p) == Start(p, ShutdownFrame)
CallDiagnostics(p) == Start(p, DiagnosticsFrame)
CallSetBatch(p, data, lifespan) == Start(p, SetBatchFrame(data, lifespan))
CallGetBatch(p, keys) == Start(p, GetBatchFrame(keys))
CallAcquireLock(p, k, duration, timeout) ==
  Start(p, AcquireLockFrame(k, duration, timeout, "token" \o ToString(p)))
CallReleaseLock(p, k) == Start(p, ReleaseLockFrame(k))
CallGetDownloadUrl(p, id) == Start(p, GetDownloadUrlFrame(id))

\* ------------------------------------------------- the lock of CacheService
\* Two callers of cacheService (local tier only) take and release the lock "x"
\* with a lease of 5 s and a timeout of 20 ms.
LockKeys == {"x"}
LockInit == InitEngine(DefaultConfig, StartTime)

LockNext ==
  \/ \E p \in Callers, k \in LockKeys : CallAcquireLock(p, k, 5, 20)
  \/ \E p \in Callers, k \in LockKeys : CallReleaseLock(p, k)
  \/ \E p \in Callers : Resume(p)
  \/ \E p \in Callers : TimerFire(p)
  \/ Tick(PollInterval, StartTime + LockTicks * PollInterval)

SpecLock == LockInit /\ [][LockNext]_vars

\* C1: at most one caller at a time holds a lock: of the grants of one key
\* whose lease has not run out and that no releaseLock has ended, at most one
\* is in force.
LockHolders(k) == {h \in hist.holders : h.key = k /\ now <= h.until}
C1_MutualExclusion == \A k \in LockKeys : Cardinality(LockHolders(k)) <= 1

\* The same callers, and callers that keep values of their own under the plain
\* key "x".
LockKeyNext ==
  \/ LockNext
  \/ \E p \in Callers, k \in LockKeys, v \in {Str("payload"), Num(0)} :
       CallSet(p, k, v, Undefined)

SpecLockKey == LockInit /\ [][LockKeyNext]_vars

\* C10: acquireLock(lockKey) and releaseLock(lockKey) read, write and delete
\* only the cache key lock:<lockKey>.
C10_LockNamespace == \A a \in hist.lockAccess : a[2] = "lock:" \o a[1]

\* ------------------------------------------------------- local store capacity
\* One caller on a local-only engine of capacity 1 or 2: writes of every kind
\* on the keys '', a and b, with the clock free to stand still between them.
CapacityKeys == {"", "a", "b"}
CapacityInit ==
  \E limit \in {1, 2} :
    InitEngine([DefaultConfig EXCEPT !.memoryTierLimit = limit], StartTime)

CapacityNext ==
  \/ \E p \in Solo, k \in CapacityKeys : CallSet(p, k, Num(1), Undefined)
  \/ \E p \in Solo, k \in CapacityKeys : CallIncrement(p, k, 1)
  \/ \E p \in Solo, k \in CapacityKeys : CallDelete(p, k)
  \/ \E p \in Solo, k \in CapacityKeys : CallGetOrSet(p, k, Num(1), Undefined)
  \/ \E p \in Solo : CallRateLimit(p, "a", 3, 60)
  \/ \E p \in Solo : CallCreateSession(p, "s", "u", "d", Undefined)
  \/ \E p \in Solo : CallGetSession(p, "s")
  \/ \E p \in Solo : Resume(p)
  \/ \E p \in Solo : SupplierDone(p)
  \/ Tick(1, StartTime + CapacityTicks)

SpecCapacity == CapacityInit /\ [][CapacityNext]_vars

\* C2: the number of entries in the local store never exceeds memoryTierLimit.
C2_CapacityBound == Len(engine.memoryCache) <= engine.config.memoryTierLimit

\* ------------------------------------------------------------- the LRU victim
\* One caller on a local-only engine of capacity 2: writes, reads and probes of
\* the keys '', a and b while the clock advances by milliseconds.
LRUInit == InitEngine([DefaultConfig EXCEPT !.memoryTierLimit = 2], StartTime)

LRUNext ==
  \/ \E p \in Solo, k \in CapacityKeys : CallSet(p, k, Num(1), Undefined)
  \/ \E p \in Solo, k \in CapacityKeys : CallIncrement(p, k, 1)
  \/ \E p \in Solo, k \in CapacityKeys : CallGet(p, k)
  \/ \E p \in Solo, k \in CapacityKeys : CallHas(p, k)
  \/ \E p \in Solo : Resume(p)
  \/ Tick(1, StartTime + CapacityTicks)

SpecLRU == LRUInit /\ [][LRUNext]_vars

\* Task p starts a call in this step; on the local tier the call's work on the
\* store is done within the step.
Calls(p, fns) == tasks'[p].seq # tasks[p].seq /\ tasks'[p].call.fn \in fns

\* The lastAccessed of key's entry in the local store mc.
LastAccessed(mc, key) == mc[MapIndex(mc, key)].lastAccessed

\* The entries of mc whose key the store mc2 no longer holds.
Removed(mc, mc2) == {i \in 1..Len(mc) : ~MapHas(mc2, mc[i].key)}

\* C13: a set on the local tier removes at most one entry, and one that no
\* resident entry precedes in lastAccessed; a write and a hit of get set the
\* entry's lastAccessed to the time of the call, and has leaves every entry's
\* lastAccessed as it was.
C13_LRUVictim ==
  [][\A p \in Procs :
       /\ (Calls(p, {"set", "increment"})
            => (/\ Cardinality(Removed(engine.memoryCache, engine'.memoryCache)) <= 1
                /\ \A i \in Removed(engine.memoryCache, engine'.memoryCache) :
                     \A j \in 1..Len(engine.memoryCache) :
                       engine.memoryCache[i].lastAccessed
                         <= engine.memoryCache[j].lastAccessed
                /\ LastAccessed(engine'.memoryCache, tasks'[p].call.key) = now))
       /\ ((Calls(p, {"get"}) /\ tasks'[p].res.v # Null)
            => LastAccessed(engine'.memoryCache, tasks'[p].call.key) = now)
       /\ (Calls(p, {"has"})
            => \A i \in 1..Len(engine'.memoryCache) :
                 \E j \in 1..Len(engine.memoryCache) :
                   engine'.memoryCache[i] = engine.memoryCache[j])]_vars

\* A set at capacity has removed an entry right after a hit of get refreshed
\* another, which is still resident.
C13_Witness ==
  \E p \in Procs :
    /\ hist.evicted # {}
    /\ tasks[p].done /\ tasks[p].call.fn = "set"
    /\ tasks[p].prev.call.fn = "get" /\ tasks[p].prev.res.v # Null
    /\ tasks[p].prev.call.key # tasks[p].call.key
    /\ tasks[p].prev.call.key \notin hist.evicted
    /\ MapHas(engine.memoryCache, tasks[p].prev.call.key)

\* C28: a set or increment of a resident key removes no key from the local
\* store, and a step removes keys from it only when it is a set or increment
\* of a key that is not resident, in a full store.
C28_OverwriteKeeps ==
  [][/\ \A p \in Procs :
          (Calls(p, {"set", "increment"}) /\ tasks'[p].call.key \in Resident(engine))
          => Resident(engine) \subseteq Resident(engine')
     /\ ~(Resident(engine) \subseteq Resident(engine'))
        => \E p \in Procs :
             /\ Calls(p, {"set", "increment"})
             /\ tasks'[p].call.key \notin Resident(engine)
             /\ Len(engine.memoryCache) >= engine.config.memoryTierLimit]_vars

\* ------------------------------------------------------------------ expiry
\* One caller on a local-only engine: entries with a lifespan of 1 s, read,
\* probed and given a new lifespan while the clock advances by seconds.
ExpiryKeys == {"a", "b"}
ExpiryInit == InitEngine(DefaultConfig, StartTime)

ExpiryNext ==
  \/ \E p \in Solo, k \in ExpiryKeys, v \in {Num(1), Str("v")} : CallSet(p, k, v, 1)
  \/ \E p \in Solo, k \in ExpiryKeys : CallGet(p, k)
  \/ \E p \in Solo, k \in ExpiryKeys : CallHas(p, k)
  \/ \E p \in Solo, k \in ExpiryKeys : CallSetTTL(p, k, 5)
  \/ \E p \in Solo, k \in ExpiryKeys : CallGetTTL(p, k)
  \/ \E p \in Solo, k \in ExpiryKeys : CallIncrement(p, k, 1)
  \/ \E p \in Solo : Resume(p)
  \/ Tick(1000, StartTime + ExpiryTicks * 1000)

SpecExpiry == ExpiryInit /\ [][ExpiryNext]_vars

\* C3: once an entry's expiration has passed and until its key is written
\* again, get reports a miss and leaves the key absent, and has reports false.
C3_ExpiredMeansAbsent ==
  [][\A p \in Procs :
       Completes(p) /\ tasks'[p].call.fn \in {"get", "has"}
                    /\ tasks'[p].call.key \in hist.lapsed
       => /\ tasks'[p].call.fn = "get"
               => tasks'[p].res.v = Null
                  /\ ~MapHas(engine'.memoryCache, tasks'[p].call.key)
          /\ tasks'[p].call.fn = "has" => tasks'[p].res.v = FALSE]_vars

\* The result the local getTTL is to give for `key` at time t: -2 for a key
\* that is absent or past its expiration, -1 for an entry that never expires,
\* else the whole seconds that remain.
TTLCode(mc, key, t) ==
  IF ~MapHas(mc, key) THEN -2
  ELSE IF Expired(mc[MapIndex(mc, key)], t) THEN -2
  ELSE IF mc[MapIndex(mc, key)].expiration = Undefined THEN -1
  ELSE (mc[MapIndex(mc, key)].expiration - t) \div 1000

\* C14: on the local tier getTTL returns -2 exactly for a key that is absent
\* or whose expiration has passed, -1 exactly for a resident entry with no
\* expiration, and otherwise the whole seconds remaining, which are not negative.
C14_TTLCodes ==
  [][\A p \in Procs :
       Calls(p, {"getTTL"})
       => /\ ~tasks'[p].res.exc
          /\ tasks'[p].res.v = TTLCode(engine.memoryCache, tasks'[p].call.key, now)
          /\ tasks'[p].res.v >= -2]_vars

\* ------------------------------------------------------------------ sessions
\* One caller creates the session "s" when the engine is constructed, and reads
\* and deletes it while the clock advances by seconds, on an engine without an
\* endpoint or with one whose handshake is answered between two calls; every
\* Redis command is answered.
SessionIds == {"s"}
SessionHorizon == StartTime + SessionTicks * 1000
SessionCaller == {p \in Solo : calls < MaxCalls}
Idle == {p \in Solo : tasks[p].stack = <<>>}

\* The record under user_session:<sessionId> in the tier in use, or null.
StoredSession(e, r, sessionId, t) ==
  IF isPrimaryActive(e)
  THEN IF SessionKey(sessionId) \in DOMAIN RLive(r, t)
       THEN JSONparse(r[SessionKey(sessionId)].raw).v ELSE Null
  ELSE IF MapHas(e.memoryCache, SessionKey(sessionId))
            /\ ~Expired(e.memoryCache[MapIndex(e.memoryCache, SessionKey(sessionId))], t)
       THEN e.memoryCache[MapIndex(e.memoryCache, SessionKey(sessionId))].value
       ELSE Null

SessionInit == \E c \in {DefaultConfig, RedisConfig} : InitEngine(c, StartTime)

SessionNext ==
  \/ \E p \in {q \in SessionCaller : now = StartTime}, id \in SessionIds :
       CallCreateSession(p, id, Str("u"), Str("d"), Undefined)
  \/ \E p \in SessionCaller, id \in SessionIds : CallGetSession(p, id)
  \/ \E p \in SessionCaller, id \in SessionIds : CallDeleteSession(p, id)
  \/ \E p \in Solo : Resume(p)
  \/ \E p \in Solo : RedisReply(p)
  \/ \E p \in Idle : HandshakeOK
  \/ Tick(1000, SessionHorizon)

SpecSession == SessionInit /\ [][SessionNext]_vars

\* C18: a getSession that returns a record returns the userId, data and
\* createdAt given to createSession and a lastActive between its call and its
\* return, and the record then stored under user_session:<id> is the one
\* returned; a getSession that finds no session returns null straight after
\* its get, without a set, and the session is still absent.
C18_SessionRefresh ==
  [][\A p \in Procs :
       (Completes(p) /\ tasks'[p].call.fn = "getSession")
       => /\ ~tasks'[p].res.exc
          /\ IF tasks'[p].res.v = Null
             THEN /\ tasks'[p].frame.pc = "get"
                  /\ hist'.written = hist.written
                  /\ StoredSession(engine', remote', tasks'[p].call.key, now') = Null
             ELSE /\ tasks'[p].res.v.userId = Str("u")
                  /\ tasks'[p].res.v.data = Str("d")
                  /\ tasks'[p].res.v.createdAt = StartTime
                  /\ tasks'[p].res.v.lastActive >= tasks'[p].frame.calledAt
                  /\ tasks'[p].res.v.lastActive <= now'
                  /\ StoredSession(engine', remote', tasks'[p].call.key, now')
                       = tasks'[p].res.v]_vars

\* A getSession made a second after createSession returned the session with the
\* later lastActive, on the remote tier.
C18_Witness ==
  \E p \in Procs :
    /\ tasks[p].done /\ tasks[p].call.fn = "getSession" /\ ~tasks[p].res.exc
    /\ tasks[p].res.v # Null
    /\ tasks[p].res.v.lastActive > tasks[p].res.v.createdAt
    /\ isPrimaryActive(engine)
    /\ tasks[p].prev.call.fn = "createSession"

\* When the record under user_session:<sessionId> in the tier in use expires
\* (Undefined: never).
SessionExpiry(e, r, sessionId) ==
  IF isPrimaryActive(e) THEN r[SessionKey(sessionId)].exp
  ELSE e.memoryCache[MapIndex(e.memoryCache, SessionKey(sessionId))].expiration

\* C27: no step of a getSession call on a stored session moves the session's
\* expiry to an earlier time.
C27_ReadKeepsLife ==
  [][\A p \in Procs :
       (/\ tasks'[p].call.fn = "getSession"
        /\ tasks'[p].seq # tasks[p].seq \/ ~tasks[p].done
        /\ now' = now
        /\ StoredSession(engine, remote, tasks'[p].call.key, now) # Null)
       => /\ StoredSession(engine', remote', tasks'[p].call.key, now') # Null
          /\ \/ SessionExpiry(engine', remote', tasks'[p].call.key) = Undefined
             \/ /\ SessionExpiry(engine, remote, tasks'[p].call.key) # Undefined
                /\ SessionExpiry(engine', remote', tasks'[p].call.key)
                     >= SessionExpiry(engine, remote, tasks'[p].call.key)]_vars

\* ------------------------------------------------------------------ shutdown
\* One caller writes, reads, deletes, reads a session, asks for diagnostics and
\* shuts down an engine with or without an endpoint, while the handshake is
\* answered or fails at any point, also after the shutdown, and the connection
\* drops and returns; every Redis command of the caller is answered.
ShutdownKeys == {"a"}
ShutdownInit == \E c \in {DefaultConfig, RedisConfig} : InitEngine(c, StartTime)

ShutdownNext ==
  \/ \E p \in Solo : CallShutdown(p)
  \/ \E p \in Solo, k \in ShutdownKeys : CallSet(p, k, Num(1), Undefined)
  \/ \E p \in Solo, k \in ShutdownKeys : CallGet(p, k)
  \/ \E p \in Solo, k \in ShutdownKeys : CallDelete(p, k)
  \/ \E p \in Solo : CallDiagnostics(p)
  \/ \E p \in Solo, id \in SessionIds : CallGetSession(p, id)
  \/ \E p \in Solo : Resume(p)
  \/ \E p \in Solo : RedisReply(p)
  \/ HandshakeOK
  \/ HandshakeFail
  \/ OnClose
  \/ OnConnect

SpecShutdown == ShutdownInit /\ [][ShutdownNext]_vars

\* C19: a shutdown returns with the engine not live and the local store empty;
\* from then on the engine is never live, whatever the handshake and the
\* connection do, no call awaits a Redis command and Redis is left alone, and
\* a set is kept in the local store.
C19_ShutdownFinal ==
  [][/\ \A p \in Procs :
          (Completes(p) /\ tasks'[p].call.fn = "shutdown")
          => /\ ~tasks'[p].res.exc
             /\ ~isPrimaryActive(engine')
             /\ engine'.memoryCache = <<>>
             /\ hist'.shut
     /\ hist.shut
        => /\ hist'.shut
           /\ ~isPrimaryActive(engine')
           /\ remote' = remote
           /\ \A p \in Procs :
                /\ ~(tasks'[p].stack # <<>>
                       /\ tasks'[p].stack[Len(tasks'[p].stack)].w = "prim")
                /\ (Completes(p) /\ tasks'[p].call.fn = "set")
                   => /\ tasks'[p].res.v
                      /\ MapHas(engine'.memoryCache, tasks'[p].call.key)]_vars

\* The engine was shut down while its handshake was pending, the handshake was
\* answered afterwards, and a later set went to the local store.
C19_Witness ==
  /\ hist.shut /\ engine.connection = "shut" /\ ~engine.handlers
  /\ tasks[Background].done
  /\ \E p \in Procs :
       /\ tasks[p].done /\ tasks[p].call.fn = "set" /\ tasks[p].res.v
       /\ tasks[p].prev.call.fn = "shutdown"
       /\ MapHas(engine.memoryCache, tasks[p].call.key)

\* --------------------------------------------------------------------- clear
\* One caller writes, reads, deletes and clears on an engine with or without an
\* endpoint, while the handshake is answered and the connection drops and
\* returns; each Redis command is answered or fails.
ClearKeys == {"a"}
ClearInit == \E c \in {DefaultConfig, RedisConfig} : InitEngine(c, StartTime)

ClearNext ==
  \/ \E p \in Solo : CallClear(p)
  \/ \E p \in Solo, k \in ClearKeys : CallSet(p, k, Num(1), Undefined)
  \/ \E p \in Solo, k \in ClearKeys \cup {"b"} : CallGet(p, k)
  \/ \E p \in Solo, k \in ClearKeys : CallDelete(p, k)
  \/ \E p \in Solo : RedisReply(p)
  \/ \E p \in Solo : RedisError(p)
  \/ HandshakeOK
  \/ OnClose
  \/ OnConnect

SpecClear == ClearInit /\ [][ClearNext]_vars

\* The counters clear() resets.
Counters(e) ==
  <<e.metrics.successful, e.metrics.failed, e.metrics.writes, e.metrics.removals>>

\* C20: a clear that returns true leaves the four counters at zero and the
\* tier it was called on empty; a clear that returns false has awaited the
\* flush, and from its call to its return the counters, the local store and
\* Redis are unchanged.
C20_Clear ==
  [][\A p \in Procs :
       /\ (Completes(p) /\ tasks'[p].call.fn = "clear")
          => /\ ~tasks'[p].res.exc
             /\ tasks'[p].res.v
                => /\ Counters(engine') = <<0, 0, 0, 0>>
                   /\ IF tasks'[p].frame.pc = "start"
                      THEN engine'.memoryCache = <<>>
                      ELSE DOMAIN RLive(remote', now') = {}
             /\ ~tasks'[p].res.v
                => /\ tasks'[p].frame.pc = "FLUSHDB"
                   /\ Counters(engine') = Counters(engine)
                   /\ engine'.memoryCache = engine.memoryCache
                   /\ remote' = remote
       /\ (tasks'[p].call.fn = "clear" /\ ~tasks'[p].done)
          => /\ Counters(engine') = Counters(engine)
             /\ engine'.memoryCache = engine.memoryCache
             /\ remote' = remote]_vars

\* A clear on the remote tier returned true right after a get had found a
\* value there.
C20_Witness ==
  \E p \in Procs :
    /\ tasks[p].done /\ tasks[p].call.fn = "clear" /\ tasks[p].res.v
    /\ tasks[p].frame.pc = "FLUSHDB"
    /\ tasks[p].prev.call.fn = "get" /\ tasks[p].prev.res.v # Null

\* ------------------------------------------------------ set/get round trip
\* One caller sets and gets a key on an engine with or without an endpoint,
\* while the handshake completes or fails and the connection drops and returns.
RoundTripInit == \E c \in {DefaultConfig, RedisConfig} : InitEngine(c, StartTime)

RoundTripNext ==
  \/ \E p \in Solo, v \in {Num(1), Str("s"), Null}, ls \in {Undefined, 60} : CallSet(p, "a", v, ls)
  \/ \E p \in Solo : CallGet(p, "a")
  \/ \E p \in Solo : RedisReply(p)
  \/ HandshakeOK
  \/ HandshakeFail
  \/ OnClose
  \/ OnConnect

SpecRoundTrip == RoundTripInit /\ [][RoundTripNext]_vars

\* C4: a get(k) issued right after a set(k, v) that returned true returns v.
C4_RoundTrip ==
  \A p \in Procs :
    tasks[p].done /\ tasks[p].call.fn = "get" /\ tasks[p].prev.call.fn = "set"
    /\ tasks[p].prev.call.key = tasks[p].call.key /\ tasks[p].prev.res.v
    => tasks[p].res.v = tasks[p].prev.call.value

\* ------------------------------------------------------------ rate limiting
\* One caller on a local-only engine calls rateLimit("u", 3, 60) and writes
\* another key in between; the store holds 1 entry or 10000, the default
\* lifespan is 1 s or 3600 s, and the clock stays inside one window.
RateInit ==
  \E limit \in {1, 10000}, lifespan \in {1, 3600} :
    InitEngine([DefaultConfig EXCEPT !.memoryTierLimit = limit,
                                     !.entryLifespan = lifespan], StartTime)

RateNext ==
  \/ \E p \in Solo : CallRateLimit(p, "u", 3, 60)
  \/ \E p \in Solo : CallSet(p, "other", Num(1), Undefined)
  \/ \E p \in Solo : Resume(p)
  \/ Tick(1000, StartTime + RateTicks * 1000)

SpecRate == RateInit /\ [][RateNext]_vars

\* C5: the i-th rateLimit call of a window returns requestCount = i and
\* permitted = (i <= maxRequests).
C5_FixedWindow ==
  \A p \in Procs :
    tasks[p].done /\ tasks[p].call.fn = "rateLimit"
    => /\ tasks[p].res.v.requestCount
            = Num(Count(hist.rateCalls, tasks[p].frame.controlKey))
       /\ tasks[p].res.v.permitted
            = (Count(hist.rateCalls, tasks[p].frame.controlKey) <= tasks[p].call.maxRequests)

\* C6: after a rateLimit call the counter of its window, while resident,
\* expires at most windowSeconds from now.
C6_WindowLifetime ==
  \A p \in Procs :
    tasks[p].done /\ tasks[p].call.fn = "rateLimit"
    => \A i \in 1..Len(engine.memoryCache) :
         engine.memoryCache[i].key = tasks[p].frame.controlKey
         => /\ engine.memoryCache[i].expiration # Undefined
            /\ engine.memoryCache[i].expiration - now <= tasks[p].call.windowSeconds * 1000

\* ------------------------------------------------------------------ getOrSet
\* One caller on a local-only engine calls getOrSet with suppliers that
\* produce null, 0, '' and 7; nothing expires, nothing is deleted or evicted.
GetOrSetInit == InitEngine(DefaultConfig, StartTime)

GetOrSetNext ==
  \/ \E p \in Solo, k \in {"a", "b"}, v \in {Null, Num(0), Str(""), Num(7)} :
       CallGetOrSet(p, k, v, Undefined)
  \/ \E p \in Solo : Resume(p)
  \/ \E p \in Solo : SupplierDone(p)

SpecGetOrSet == GetOrSetInit /\ [][GetOrSetNext]_vars

\* C7: the supplier of a key runs once, for the first getOrSet of the key, and
\* every getOrSet returns the value then stored under the key.
C7_SupplierOnce ==
  /\ \A k \in DOMAIN hist.supplierCalls : hist.supplierCalls[k] <= 1
  /\ \A p \in Procs :
       tasks[p].done /\ tasks[p].call.fn = "getOrSet"
       => /\ MapHas(engine.memoryCache, tasks[p].call.key)
          /\ tasks[p].res.v
               = engine.memoryCache[MapIndex(engine.memoryCache, tasks[p].call.key)].value

\* ------------------------------------------------------- remote failures
\* One caller on an engine with an endpoint: every public operation, with each
\* awaited Redis command either answered or failing, values JSON cannot
\* encode, and stored texts JSON cannot parse.
FailureInit == InitEngine(RedisConfig, StartTime)

\* The caller, while the run has calls left.
FailureCaller == {p \in Solo : calls < FailureCalls}

FailureNext ==
  \/ \E p \in FailureCaller : CallGet(p, "a")
  \/ \E p \in FailureCaller, v \in {Num(1), BigInt} : CallSet(p, "a", v, Undefined)
  \/ \E p \in FailureCaller : CallHas(p, "a")
  \/ \E p \in FailureCaller : CallDelete(p, "a")
  \/ \E p \in FailureCaller : CallIncrement(p, "a", 1)
  \/ \E p \in FailureCaller : CallSetTTL(p, "a", 60)
  \/ \E p \in FailureCaller : CallGetTTL(p, "a")
  \/ \E p \in FailureCaller : CallClear(p)
  \/ \E p \in FailureCaller : CallGetOrSet(p, "a", Num(1), Undefined)
  \/ \E p \in FailureCaller : CallGetBatch(p, <<"a", "b">>)
  \/ \E p \in FailureCaller :
       CallSetBatch(p, <<[key |-> "a", value |-> Num(1)], [key |-> "b", value |-> BigInt]>>,
                    Undefined)
  \/ \E p \in FailureCaller, m \in {0, 3} : CallRateLimit(p, "a", m, 60)
  \/ \E p \in FailureCaller : CallCreateSession(p, "s", "u", "d", Undefined)
  \/ \E p \in FailureCaller : CallGetSession(p, "s")
  \/ \E p \in FailureCaller : CallDeleteSession(p, "s")
  \/ \E p \in FailureCaller : CallDiagnostics(p)
  \/ \E p \in FailureCaller : CallShutdown(p)
  \/ \E p \in Solo : Resume(p)
  \/ \E p \in Solo : SupplierDone(p)
  \/ \E p \in Solo : RedisReply(p)
  \/ \E p \in Solo : RedisError(p)
  \/ \E p \in Solo, i \in 1..2 : KidReply(p, i)
  \/ \E p \in Solo, i \in 1..2 : KidError(p, i)
  \/ HandshakeOK
  \/ \E k \in {"a"} : ForeignWrite(k)

SpecFailure == FailureInit /\ [][FailureNext]_vars

\* C15: every get that returns a value adds one to successful and nothing to
\* failed, and every get that returns a miss adds one to failed and nothing to
\* successful, so that the two counters hold the hits and the misses since
\* the last clear.
C15_ReadCounters ==
  /\ engine.metrics.successful = hist.hits
  /\ engine.metrics.failed = hist.misses

\* C16: a delete adds one to removals when it returns true and nothing when
\* it returns false.
C16_RemovalCounter ==
  [][\A p \in Procs :
       Completes(p) /\ tasks'[p].call.fn = "delete"
       => engine'.metrics.removals
            = engine.metrics.removals + IF tasks'[p].res.v THEN 1 ELSE 0]_vars

\* C17: writes is the number of set calls, direct or internal, that returned
\* true since the last clear.
C17_WriteCounter == engine.metrics.writes = hist.written

\* A set has failed after one that succeeded, and the counter stands at one.
C17_Witness ==
  \E p \in Procs :
    /\ tasks[p].done /\ tasks[p].call.fn = "set" /\ ~tasks[p].res.v
    /\ tasks[p].prev.call.fn = "set" /\ tasks[p].prev.res.v
    /\ isPrimaryActive(engine)
    /\ engine.metrics.writes = 1

\* C8: a call during which a remote command raised, or a value could not be
\* encoded or decoded, still returns: get a miss; set, has, delete, setTTL and
\* clear false; getTTL -2; every other operation some result; increment alone
\* raises. shutdown returns whatever happened before it.
C8_Totality ==
  \A p \in Procs :
    tasks[p].done /\ (tasks[p].faults > 0 \/ tasks[p].call.fn = "shutdown")
    => CASE tasks[p].call.fn = "get" -> ~tasks[p].res.exc /\ tasks[p].res.v = Null
         [] tasks[p].call.fn \in {"set", "has", "delete", "setTTL", "clear"} ->
              ~tasks[p].res.exc /\ tasks[p].res.v = FALSE
         [] tasks[p].call.fn = "getTTL" -> ~tasks[p].res.exc /\ tasks[p].res.v = -2
         [] tasks[p].call.fn = "increment" -> tasks[p].res.exc
         [] OTHER -> ~tasks[p].res.exc

\* A getTTL that answered -2 because its command failed, right after an
\* increment that raised.
C8_Witness ==
  \E p \in Procs :
    /\ tasks[p].done /\ tasks[p].faults > 0
    /\ tasks[p].call.fn = "getTTL" /\ tasks[p].res.v = -2
    /\ tasks[p].prev.call.fn = "increment" /\ tasks[p].prev.res.exc

\* C9: a rateLimit whose increment raised returns permitted = true and
\* requestCount = 1, whatever maxRequests is.
C9_FailOpen ==
  \A p \in Procs :
    tasks[p].done /\ tasks[p].call.fn = "rateLimit" /\ tasks[p].faults > 0
    /\ tasks[p].frame.pc = "increment"
    => /\ ~tasks[p].res.exc
       /\ tasks[p].res.v.permitted
       /\ tasks[p].res.v.requestCount = Num(1)

\* A rateLimit with maxRequests = 0 whose increment raised, and that permitted
\* the request.
C9_Witness ==
  \E p \in Procs :
    /\ tasks[p].done /\ tasks[p].call.fn = "rateLimit" /\ tasks[p].faults > 0
    /\ tasks[p].frame.pc = "increment" /\ tasks[p].call.maxRequests = 0
    /\ tasks[p].res.v.permitted

\* --------------------------------------------------------- releasing a lock
\* Two callers take and release the lock "x" one call after the other, on an
\* engine without an endpoint or with one whose handshake completes at some
\* point; every Redis command is answered.
Turn == {p \in Callers : calls < ReleaseCalls /\ \A q \in Callers : tasks[q].stack = <<>>}

\* The call made on the engine just before the current call of task p was
\* fn(key): it is the other task's current call, or some task's call before.
PrevCall(p, fn, key) ==
  \E q \in Procs :
    \/ /\ tasks[q].seq = tasks[p].seq - 1
       /\ tasks[q].call.fn = fn /\ tasks[q].call.key = key
    \/ /\ tasks[q].prev.seq = tasks[p].seq - 1
       /\ tasks[q].prev.call.fn = fn /\ tasks[q].prev.call.key = key

\* The lock record of lockKey is absent from the tier in use.
LockFree(lockKey) ==
  IF isPrimaryActive(engine)
  THEN LockCacheKey(lockKey) \notin DOMAIN RLive(remote, now)
  ELSE ~MapHas(engine.memoryCache, LockCacheKey(lockKey))

ReleaseInit == \E c \in {DefaultConfig, RedisConfig} : InitEngine(c, StartTime)

ReleaseNext ==
  \/ \E p \in Turn, k \in LockKeys, timeout \in {1, 20} : CallAcquireLock(p, k, 5, timeout)
  \/ \E p \in Turn, k \in LockKeys : CallReleaseLock(p, k)
  \/ \E p \in Callers : Resume(p)
  \/ \E p \in Callers : TimerFire(p)
  \/ \E p \in Callers : RedisReply(p)
  \/ HandshakeOK
  \/ Tick(PollInterval, StartTime + LockTicks * PollInterval)

SpecRelease == ReleaseInit /\ [][ReleaseNext]_vars

\* C11: once a releaseLock has returned the lock record is gone from the tier
\* in use, whoever held it, and the acquireLock that follows it on the same
\* key returns true.
C11_UnconditionalRelease ==
  \A p \in Procs :
    /\ (tasks[p].done /\ tasks[p].call.fn = "releaseLock"
          /\ \A q \in Procs : tasks[q].seq <= tasks[p].seq)
       => LockFree(tasks[p].call.key)
    /\ (tasks[p].done /\ tasks[p].call.fn = "acquireLock"
          /\ PrevCall(p, "releaseLock", tasks[p].call.key))
       => (~tasks[p].res.exc /\ tasks[p].res.v)

\* A caller took the lock, the other caller released it, and the first caller
\* took it again.
C11_Witness ==
  \E p \in Procs, q \in Procs :
    /\ q # p /\ tasks[q].seq = tasks[p].seq - 1
    /\ tasks[q].call.fn = "releaseLock" /\ tasks[q].prev.call.fn # "acquireLock"
    /\ tasks[p].done /\ tasks[p].call.fn = "acquireLock" /\ tasks[p].res.v
    /\ tasks[p].prev.call.fn = "acquireLock" /\ tasks[p].prev.res.v

\* -------------------------------------------------------- acquiring a lock
\* One caller calls acquireLock("x") with a timeout of 0 or 20 ms, and
\* releaseLock, on an engine without an endpoint or with one; each Redis command is
\* answered or fails.  A call starts while the run has time left for its
\* timeout; time advances, and whatever a caller awaits arrives.
AcquireHorizon == StartTime + LockTicks * PollInterval
\* Calls are made up to the horizon.
AcquireCaller == {p \in Solo : calls < AcquireCalls /\ now <= AcquireHorizon}

\* The timeouts of the calls made, and the time by which a call made by the
\* horizon must have seen its timeout elapse.
AcquireTimeouts == {0, 2 * PollInterval}
AcquireDeadline == AcquireHorizon + 2 * PollInterval

\* Time advances up to the horizon of the run, and beyond it, up to the
\* deadline, for as long as a caller sleeps on a timer that has not come due.
AcquireLimit ==
  IF \E p \in Callers : Waiting(p, "timer") /\ Top(p).wake > now
  THEN AcquireDeadline ELSE AcquireHorizon

AcquireInit == \E c \in {DefaultConfig, RedisConfig} : InitEngine(c, StartTime)

AcquireNext ==
  \/ \E p \in AcquireCaller, k \in LockKeys, timeout \in AcquireTimeouts :
       CallAcquireLock(p, k, 5, timeout)
  \/ \E p \in AcquireCaller, k \in LockKeys : CallReleaseLock(p, k)
  \/ \E p \in Solo : Resume(p)
  \/ \E p \in Solo : TimerFire(p)
  \/ \E p \in Solo : RedisReply(p)
  \/ \E p \in Solo : RedisError(p)
  \/ HandshakeOK
  \/ Tick(PollInterval, AcquireLimit)

\* Time advances, the microtask queue runs, timers that are due fire and
\* every Redis command is answered or rejected.
AcquireFairness ==
  /\ WF_vars(Tick(PollInterval, AcquireLimit))
  /\ WF_vars(Resume(Caller))
  /\ WF_vars(TimerFire(Caller))
  /\ WF_vars(RedisReply(Caller) \/ RedisError(Caller))

SpecAcquire == AcquireInit /\ [][AcquireNext]_vars /\ AcquireFairness

\* What a returned acquireLock shows: no exception; true only from the branch
\* after its own set, made after it read no lock value; false only once the
\* timeout has elapsed.
AcquireReturn(p) ==
  tasks[p].done /\ tasks[p].call.fn = "acquireLock"
  => /\ ~tasks[p].res.exc
     /\ tasks[p].res.v => tasks[p].frame.pc = "set"
     /\ ~tasks[p].res.v =>
          IF tasks[p].frame.pc = "start" THEN tasks[p].call.timeout <= 0
          ELSE now - tasks[p].frame.startTime >= tasks[p].call.timeout

\* C12: every acquireLock call returns, without raising; it returns true only
\* after its own set succeeded and false only once timeoutMs has elapsed.
C12_AcquireTerminates ==
  /\ [](\A p \in Procs : AcquireReturn(p))
  /\ \A p \in Procs :
       (tasks[p].call.fn = "acquireLock" /\ ~tasks[p].done) ~> tasks[p].done

\* An acquireLock that returned false after its timeout, every one of its
\* engine calls having failed.
C12_Witness ==
  \E p \in Procs :
    /\ tasks[p].done /\ tasks[p].call.fn = "acquireLock" /\ ~tasks[p].res.v
    /\ tasks[p].call.timeout > 0 /\ tasks[p].faults >= 2

\* -------------------------------------------------------------------- metrics
\* Two callers read, write, clear and ask for diagnostics on an engine with or
\* without an endpoint, their calls interleaved; each Redis command is answered
\* or fails, and another client stores a text that is not JSON.
MetricsKeys == {"a", "b"}
MetricsCaller == {p \in Callers : calls < MetricsCalls}
MetricsInit == \E c \in {DefaultConfig, RedisConfig} : InitEngine(c, StartTime)

MetricsNext ==
  \/ \E p \in MetricsCaller, k \in MetricsKeys : CallGet(p, k)
  \/ \E p \in MetricsCaller : CallSet(p, "a", Num(1), Undefined)
  \/ \E p \in MetricsCaller : CallClear(p)
  \/ \E p \in MetricsCaller : CallDiagnostics(p)
  \/ \E p \in Callers : RedisReply(p)
  \/ \E p \in Callers : RedisError(p)
  \/ HandshakeOK
  \/ \E k \in {"a"} : ForeignWrite(k)

SpecMetrics == MetricsInit /\ [][MetricsNext]_vars

TierInit == ConstructedAs(constructor(RedisConfig, StartTime), StartTime, TRUE)

\* The caller, while the run has calls left.
TierCaller == {p \in Solo : calls < TierCalls}

TierNext ==
  \/ \E p \in TierCaller : CallSet(p, "a", Num(1), 60)
  \/ \E p \in TierCaller : CallGet(p, "a")
  \/ \E p \in TierCaller : CallHas(p, "a")
  \/ \E p \in TierCaller : CallDelete(p, "a")
  \/ \E p \in TierCaller : CallIncrement(p, "a", 1)
  \/ \E p \in TierCaller : CallGetTTL(p, "a")
  \/ \E p \in TierCaller : CallSetTTL(p, "a", 60)
  \/ \E p \in TierCaller : CallGetOrSet(p, "a", Num(1), Undefined)
  \/ \E p \in TierCaller : CallRateLimit(p, "a", 3, 60)
  \/ \E p \in TierCaller : CallCreateSession(p, "s", Str("u"), Str("d"), Undefined)
  \/ \E p \in TierCaller : CallGetSession(p, "s")
  \/ \E p \in Solo : Resume(p)
  \/ \E p \in Solo : SupplierDone(p)
  \/ \E p \in Solo : RedisReply(p)
  \/ HandshakeOK
  \/ OnClose
  \/ OnConnect

SpecTier == TierInit /\ [][TierNext]_vars

\* C22: the store accesses of one call all go to one tier.
C22_OneTier == \A p \in Procs : Cardinality(hist.tiers[p]) <= 1

\* ------------------------------------------------- reads across tier changes
\* One caller sets, deletes, clears and reads the key a on an engine with an
\* endpoint, one call after the other, while the handshake is answered and the
\* connection drops and returns between and during the calls; every Redis
\* command is answered and nothing expires.
StaleInit == InitEngine(RedisConfig, StartTime)

StaleNext ==
  \/ \E p \in Solo, v \in {Num(1), Num(2)} : CallSet(p, "a", v, Undefined)
  \/ \E p \in Solo : CallGet(p, "a")
  \/ \E p \in Solo : CallDelete(p, "a")
  \/ \E p \in Solo : CallClear(p)
  \/ \E p \in Solo : RedisReply(p)
  \/ HandshakeOK
  \/ OnClose
  \/ OnConnect

SpecStale == StaleInit /\ [][StaleNext]_vars

\* C23: a get that follows a successful set of its key returns no other value
\* than the one set, and a get that follows a successful delete of its key or
\* a successful clear returns no value.
C23_NoStaleRead ==
  \A p \in Procs :
    (tasks[p].done /\ tasks[p].call.fn = "get" /\ tasks[p].res.v # Null
       /\ ~tasks[p].prev.res.exc)
    => CASE tasks[p].prev.call.fn = "set" ->
              (tasks[p].prev.res.v /\ tasks[p].prev.call.key = tasks[p].call.key)
              => tasks[p].res.v = tasks[p].prev.call.value
         [] tasks[p].prev.call.fn = "delete" ->
              ~(tasks[p].prev.res.v /\ tasks[p].prev.call.key = tasks[p].call.key)
         [] tasks[p].prev.call.fn = "clear" -> ~tasks[p].prev.res.v
         [] OTHER -> TRUE

\* -------------------------------------------------- concurrent rate limiting
\* Two callers call rateLimit("u", 2, 60) concurrently on an engine whose
\* remote tier is live, all within one window; every Redis command is answered,
\* each one atomically.
RaceCaller == {p \in Callers : calls < RaceCalls /\ isPrimaryActive(engine)}
RaceInit == InitEngine(RedisConfig, StartTime)

RaceNext ==
  \/ \E p \in RaceCaller : CallRateLimit(p, "u", 2, 60)
  \/ \E p \in Callers : Resume(p)
  \/ \E p \in Callers : RedisReply(p)
  \/ HandshakeOK

SpecRace == RaceInit /\ [][RaceNext]_vars

\* The rateLimit results known of task p: of its current call (1) when it has
\* returned, and of the call before (0).
RateResults ==
  {<<p, 1>> : p \in {q \in Procs : tasks[q].done /\ tasks[q].call.fn = "rateLimit"}}
    \cup {<<p, 0>> : p \in {q \in Procs : tasks[q].prev.call.fn = "rateLimit"}}
RateResult(r) == IF r[2] = 1 THEN tasks[r[1]].res.v ELSE tasks[r[1]].prev.res.v

\* C24: of the rateLimit calls of one window at most maxRequests are
\* permitted, and no two return the same requestCount.
C24_RateRace ==
  /\ Cardinality({r \in RateResults : RateResult(r).permitted}) <= 2
  /\ \A r1 \in RateResults, r2 \in RateResults :
       r1 # r2 => RateResult(r1).requestCount # RateResult(r2).requestCount

\* ------------------------------------------------------------- download urls
\* One caller asks for the download URL of the ids 1 and 2, which the library
\* holds, and 9, which it does not, one call after the other on a local-only
\* engine; nothing expires.
MusicIds == {"1", "2", "9"}
MusicInit == InitEngine(DefaultConfig, StartTime)

MusicNext ==
  \/ \E p \in Solo, id \in MusicIds : CallGetDownloadUrl(p, id)
  \/ \E p \in Solo : Resume(p)
  \/ \E p \in Solo : FetchReply(p)

SpecMusic == MusicInit /\ [][MusicNext]_vars

\* The download URL of the library entry with this id, or null.
DownloadUrlOf(id) ==
  IF FindById(LibraryData.items, NumberOf(id)) = Null THEN Null
  ELSE Str(KEYGENMUSIC_URL \o FindById(LibraryData.items, NumberOf(id)).path)

\* C25: getDownloadUrl(id) returns the download URL of the library entry with
\* that id, or null when the library has none, whatever was asked before.
C25_DownloadPerId ==
  \A p \in Procs :
    (tasks[p].done /\ tasks[p].call.fn = "getDownloadUrl")
    => (~tasks[p].res.exc /\ tasks[p].res.v = DownloadUrlOf(tasks[p].call.id))

\* ---------------------------------------------------------- deleted sessions
\* Two callers read and delete the session "s" concurrently, and create it
\* while no call is in progress, on an engine without an endpoint or with one;
\* every Redis command is answered and nothing expires.  The run observes the
\* sessions deleted.
Quiet == {p \in Callers : \A q \in Callers : tasks[q].stack = <<>>}

ResurrectInit ==
  \E c \in {DefaultConfig, RedisConfig} :
    ConstructedAs(constructor(c, StartTime), StartTime, TRUE)

ResurrectNext ==
  \/ \E p \in Quiet, id \in SessionIds :
       CallCreateSession(p, id, Str("u"), Str("d"), Undefined)
  \/ \E p \in Callers, id \in SessionIds : CallGetSession(p, id)
  \/ \E p \in Callers, id \in SessionIds : CallDeleteSession(p, id)
  \/ \E p \in Callers : Resume(p)
  \/ \E p \in Callers : RedisReply(p)
  \/ HandshakeOK

SpecResurrect == ResurrectInit /\ [][ResurrectNext]_vars

\* C26: a getSession(id) called after a deleteSession(id) has returned, with
\* no createSession(id) called since, returns null.
C26_DeletedStaysDeleted ==
  \A p \in Procs :
    (tasks[p].done /\ tasks[p].call.fn = "getSession"
       /\ tasks[p].call.key \in DOMAIN hist.deletedAt
       /\ tasks[p].seq > hist.deletedAt[tasks[p].call.key])
    => (~tasks[p].res.exc /\ tasks[p].res.v = Null)

\* -------------------------------------------------------------- the live flag
\* One caller makes every kind of call on an engine with an endpoint while the
\* handshake is answered or fails, the connection drops and returns, and each
\* Redis command is answered or fails.
LiveCaller == {p \in Solo : calls < LiveCalls}
LiveInit == InitEngine(RedisConfig, StartTime)

LiveNext ==
  \/ \E p \in LiveCaller : CallSet(p, "a", Num(1), 60)
  \/ \E p \in LiveCaller : CallGet(p, "a")
  \/ \E p \in LiveCaller : CallHas(p, "a")
  \/ \E p \in LiveCaller : CallDelete(p, "a")
  \/ \E p \in LiveCaller : CallIncrement(p, "a", 1)
  \/ \E p \in LiveCaller : CallGetTTL(p, "a")
  \/ \E p \in LiveCaller : CallSetTTL(p, "a", 60)
  \/ \E p \in LiveCaller : CallClear(p)
  \/ \E p \in LiveCaller : CallGetOrSet(p, "a", Num(1), Undefined)
  \/ \E p \in LiveCaller : CallRateLimit(p, "a", 3, 60)
  \/ \E p \in LiveCaller : CallGetSession(p, "s")
  \/ \E p \in LiveCaller : CallDiagnostics(p)
  \/ \E p \in LiveCaller : CallShutdown(p)
  \/ \E p \in Solo : Resume(p)
  \/ \E p \in Solo : SupplierDone(p)
  \/ \E p \in Solo : RedisReply(p)
  \/ \E p \in Solo : RedisError(p)
  \/ HandshakeOK
  \/ HandshakeFail
  \/ OnClose
  \/ OnConnect

SpecLive == LiveInit /\ [][LiveNext]_vars

\* C29: a step changes the live flag or the connection handle only when it is
\* the outcome of the handshake, a close or connect notification, or a call of
\* shutdown; a step in which Redis fails a command changes neither, and a call
\* that reads or changes one key, or clears, made while the engine is live
\* goes to Redis, whatever failed before.
C29_LiveByEvents ==
  [][/\ (engine'.primaryActive # engine.primaryActive
           \/ engine'.primaryClient # engine.primaryClient)
        => \/ tasks'[Background].done # tasks[Background].done
           \/ \E p \in Procs : Calls(p, {"shutdown"})
           \/ /\ engine'.connection # engine.connection
              /\ \A p \in Procs \cup {Background} :
                   /\ tasks'[p].seq = tasks[p].seq
                   /\ tasks'[p].done = tasks[p].done
                   /\ tasks'[p].stack = tasks[p].stack
     /\ \A p \in Procs :
          /\ tasks'[p].faults > tasks[p].faults
             => /\ engine'.primaryActive = engine.primaryActive
                /\ engine'.primaryClient = engine.primaryClient
          /\ (Calls(p, {"get", "has", "delete", "increment", "getTTL", "setTTL", "clear"})
                /\ isPrimaryActive(engine))
             => /\ tasks'[p].stack # <<>>
                /\ tasks'[p].stack[Len(tasks'[p].stack)].w = "prim"]_vars

\* An increment failed in Redis and raised, and the call after it is awaiting
\* its Redis command.
C29_Witness ==
  \E p \in Procs :
    /\ tasks[p].prev.call.fn = "increment" /\ tasks[p].prev.res.exc
    /\ tasks[p].call.fn \in {"get", "has", "delete", "increment", "getTTL", "setTTL", "clear"}
    /\ Waiting(p, "prim")
    /\ isPrimaryActive(engine)

\* ---------------------------------------------------------------- the handshake
\* Two callers use an engine built with an endpoint, or one built without,
\* while the constructor's handshake is still unanswered and after it.
OnceCaller == {p \in Callers : calls < OnceCalls}
OnceInit == InitEngine(RedisConfig, StartTime) \/ InitEngine(DefaultConfig, StartTime)

OnceNext ==
  \/ \E p \in OnceCaller : CallSet(p, "a", Num(1), 60)
  \/ \E p \in OnceCaller : CallGet(p, "a")
  \/ \E p \in OnceCaller : CallIncrement(p, "a", 1)
  \/ \E p \in OnceCaller : CallGetOrSet(p, "b", Num(2), Undefined)
  \/ \E p \in OnceCaller : CallShutdown(p)
  \/ \E p \in Callers : Resume(p)
  \/ \E p \in Callers : SupplierDone(p)
  \/ \E p \in Callers : RedisReply(p)
  \/ \E p \in Callers : RedisError(p)
  \/ HandshakeOK
  \/ HandshakeFail
  \/ OnClose
  \/ OnConnect

SpecOnce == OnceInit /\ [][OnceNext]_vars

\* The handshake of the constructor has failed.
HandshakeFailed == tasks[Background].faults > 0

\* C30: the only handshake is the one the constructor starts: no call of a
\* caller ever runs establishPrimaryConnection up to its PING, and the
\* constructor's handshake ends without an exception. Once it has failed the
\* engine is not live, holds no client, no call is waiting for Redis and
\* Redis has received nothing. Without an endpoint no handshake is started
\* and the engine is never live.
C30_OneShot ==
  /\ \A p \in Procs : \A i \in DOMAIN tasks[p].stack :
       tasks[p].stack[i].fn # "establishPrimaryConnection"
  /\ tasks[Background].faults <= 1
  /\ tasks[Background].done => ~tasks[Background].res.exc
  /\ HandshakeFailed
     => /\ ~engine.primaryActive
        /\ engine.primaryClient = "null"
        /\ \A p \in Procs : ~Waiting(p, "prim")
        /\ DOMAIN remote = {}
  /\ engine.config.primaryEndpoint = ""
     => /\ tasks[Background].call = NoCall
        /\ tasks[Background].stack = <<>>
        /\ ~isPrimaryActive(engine)
        /\ engine.primaryClient = "null"
        /\ \A p \in Procs : ~Waiting(p, "prim")

\* The handshake has failed; one caller's set has since stored its value in
\* the local store while the other caller is suspended in its supplier.
C30_Witness ==
  /\ HandshakeFailed
  /\ \E p, q \in Procs :
       /\ p # q
       /\ tasks[p].done /\ tasks[p].call.fn = "set" /\ tasks[p].res.v = TRUE
       /\ \E i \in DOMAIN engine.memoryCache : engine.memoryCache[i].key = "a"
       /\ tasks[q].call.fn = "getOrSet" /\ Waiting(q, "promise")

====
